---- MODULE Spec2Model ----
(***************************************************************************)
(* Product synchronisation of medusa-demo: the manual trigger and its      *)
(* status record (api/admin/sync/route.ts), the scheduled job              *)
(* (jobs/sync-products.ts), the worker pool of                             *)
(* utils/product-sync-helpers.ts and the batch workflow of                 *)
(* workflows/sync-batch.ts running against the product module's store.     *)
(*                                                                         *)
(* Strings are sequences of one-character strings, so that slugify and the *)
(* handle suffixes are computed character by character.                    *)
(***************************************************************************)
EXTENDS Integers, Sequences, FiniteSets, TLC

VARIABLES
    \* ---- api/admin/sync/route.ts and the scheduler
    syncStatus,     \* the module-level status record
    activeRuns,     \* executions of syncProductsJob in progress
    clock,          \* wall clock (Date.now())
    lastResponse,   \* the last HTTP response sent by the route
    nPosts,         \* POST requests handled so far
    \* ---- utils/product-sync-helpers.ts
    totalProducts,  \* argument of processAllBatchesInParallel
    batchSize,      \* argument of processAllBatchesInParallel
    workerCount,    \* concurrencyLimit
    allTasks,       \* result of generateBatchTasks
    workers,        \* per worker: its task list and its position in the chain
    stats,          \* the shared SyncStats object
    phase,          \* "idle", "generated", "distributed", "running" (workers started),
                    \* "done" (Promise.all resolved, or the job's loop left),
                    \* "crashed" (the job's outer catch), "rejected" (the job threw)
    run,            \* number of the current run
    pageRequests,   \* per worker of the run, in order: the skip of each page it has asked
                    \* the feed for, with the number of products answered or -1 for an error
    runStats,       \* per completed run, in order: its stats and the catalog's size at its end
    \* ---- the feed and the product module's store
    feed,           \* the remote feed's items
    products,       \* catalog records; a record's id is its index
    categories,     \* product categories; a category's id is its index
    createCalls,    \* the createProductCategories calls of the current run: their number,
                    \* and per handle the number of calls that named it
    faults,         \* store and feed failures that have happened
    \* ---- one call of a fetch client: services/dummy-json.ts, lib/retry.ts
    client,         \* "service": DummyJsonService.fetchWithRetry, "lib": lib/retry.ts fetchWithRetry
    config,         \* the call's retries argument, or the options merged over DEFAULT_OPTIONS
    attempt,        \* the loop variable
    fetchPc,        \* "start", "request" (await fetch(url)), "returned", "thrown"
    requests,       \* fetch(url) calls issued so far
    received,       \* what each request ended with, in order: <<response>>, or <<>> when
                    \* fetch(url) rejected
    sleeps,         \* the delays awaited so far inside the retry loop, in order
    pacing,         \* the pacing delays awaited so far, each with the number of the
                    \* request it precedes
    fetchResult,    \* what the call returned or threw
    \* ---- the environment of jobs/sync-products.ts
    safeMax,        \* SAFE_MAX as the job reads it from SYNC_SAFE_MAX
    \* ---- the earlier job: creates and updates issued as separate batched calls
    legacySync,     \* its lists, loop position, counters and the calls attempted
    fetchAll        \* its fetchAllProducts: skip, hasMore, allProducts, the offsets asked for

triggerVars == <<syncStatus, activeRuns, clock, lastResponse, nPosts>>
poolVars == <<totalProducts, batchSize, workerCount, allTasks, workers, stats, phase, run,
              pageRequests, runStats>>
storeVars == <<feed, products, categories, createCalls, faults>>
fetchVars == <<client, config, attempt, fetchPc, requests, received, sleeps, pacing,
               fetchResult>>
envVars == <<safeMax>>
legacyVars == <<legacySync, fetchAll>>
vars == <<triggerVars, poolVars, storeVars, fetchVars, envVars, legacyVars>>

-----------------------------------------------------------------------------
(* Bounds of the model *)

MaxClock == 3
MaxPosts == 3
MaxTotal == 12
MaxBatchSize == 5
MaxItems == 3
MaxFaults == 1
MaxRuns == 2
MaxWorkers == 4
MaxRetries == 5
MaxSafeMax == 4
MaxPages == 3
MaxReported == 2

-----------------------------------------------------------------------------
(* Strings *)

Upper == <<"A", "B", "X", "Y">>
Lower == <<"a", "b", "x", "y">>
DigitChars == <<"0", "1", "2", "3", "4", "5", "6", "7", "8", "9">>

Range(s) == {s[i] : i \in DOMAIN s}

IsWordChar(c) == c \in Range(Upper) \cup Range(Lower) \cup Range(DigitChars) \cup {"_"}
IsSpace(c) == c = " "

toLowerChar(c) ==
    IF c \in Range(Upper)
    THEN Lower[CHOOSE i \in DOMAIN Upper : Upper[i] = c]
    ELSE c

toLowerCase(s) == [i \in DOMAIN s |-> toLowerChar(s[i])]

RECURSIVE trimStart(_)
trimStart(s) ==
    IF s # <<>> /\ IsSpace(Head(s)) THEN trimStart(Tail(s)) ELSE s

RECURSIVE trimEnd(_)
trimEnd(s) ==
    IF s # <<>> /\ IsSpace(s[Len(s)]) THEN trimEnd(SubSeq(s, 1, Len(s) - 1)) ELSE s

trim(s) == trimEnd(trimStart(s))

\* s.replace(/\s+/g, "-")
RECURSIVE replaceSpaceRuns(_)
replaceSpaceRuns(s) ==
    IF s = <<>> THEN <<>>
    ELSE IF IsSpace(Head(s))
         THEN <<"-">> \o replaceSpaceRuns(trimStart(s))
         ELSE <<Head(s)>> \o replaceSpaceRuns(Tail(s))

\* s.replace(/[^\w\-]+/g, "")
removeNonWord(s) == SelectSeq(s, LAMBDA c : IsWordChar(c) \/ c = "-")

\* s.replace(/\-\-+/g, "-")
RECURSIVE collapseHyphens(_)
collapseHyphens(s) ==
    IF Len(s) < 2 THEN s
    ELSE IF s[1] = "-" /\ s[2] = "-"
         THEN collapseHyphens(Tail(s))
         ELSE <<Head(s)>> \o collapseHyphens(Tail(s))

slugify(text) ==
    collapseHyphens(removeNonWord(replaceSpaceRuns(trim(toLowerCase(text)))))

\* Number.prototype.toString() of a natural number
RECURSIVE toString(_)
toString(n) ==
    IF n < 10 THEN <<DigitChars[n + 1]>>
    ELSE toString(n \div 10) \o <<DigitChars[(n % 10) + 1]>>

\* The elements of s at the indices in keep, in the order of s
RECURSIVE SelectFrom(_, _, _)
SelectFrom(s, keep, i) ==
    IF i > Len(s) THEN <<>>
    ELSE IF i \in keep THEN <<s[i]>> \o SelectFrom(s, keep, i + 1)
    ELSE SelectFrom(s, keep, i + 1)

SelectIndices(s, keep) == SelectFrom(s, keep, 1)

\* [...new Set(s)]: the distinct elements of s in the order of their first occurrence
uniqueOf(s) == SelectIndices(s, {i \in DOMAIN s : \A j \in 1..(i - 1) : s[j] # s[i]})

-----------------------------------------------------------------------------
(* Task generation and distribution: utils/product-sync-helpers.ts *)

\* for (let skip = 0; skip < totalProducts; skip += batchSize) tasks.push({skip, batchSize})
RECURSIVE generateFrom(_, _, _)
generateFrom(skip, total, size) ==
    IF skip < total
    THEN <<[skip |-> skip, batchSize |-> size]>> \o generateFrom(skip + size, total, size)
    ELSE <<>>

\* The loop running while skip <= totalProducts
generateBatchTasksInclusive(total, size) == generateFrom(0, total + 1, size)

generateBatchTasks(total, size) == generateFrom(0, total, size)

\* Every task pushed onto the first group
workerIndexFirst(index, count) == 1

\* The round robin starting one group late
workerIndexShifted(index, count) == ((index + 1) % count) + 1

\* groups[index % workerCount].push(task), workers numbered 1..count
workerIndex(index, count) == (index % count) + 1

\* Every group given every task
distributeTasksToEveryWorker(tasks, count) == [w \in 1..count |-> tasks]

distributeTasksToWorkers(tasks, count) ==
    [w \in 1..count |->
        SelectIndices(tasks, {i \in DOMAIN tasks : workerIndex(i - 1, count) = w})]

\* The chain built from the last task backwards
chainOverReversed(tasks) ==
    [tasks |-> [i \in 1..Len(tasks) |-> tasks[Len(tasks) + 1 - i]],
     pc |-> IF tasks = <<>> THEN "finished" ELSE "fetch",
     batch |-> <<>>, nameToId |-> <<>>, toCreate |-> <<>>, payload |-> <<>>]

\* A worker's chain about to run its tasks: the first fetch is under way,
\* or the chain is already resolved when there is no task
chainOver(tasks) ==
    [tasks |-> tasks, pc |-> IF tasks = <<>> THEN "finished" ELSE "fetch",
     batch |-> <<>>, nameToId |-> <<>>, toCreate |-> <<>>, payload |-> <<>>]

-----------------------------------------------------------------------------
(* The manual trigger, its status record and the scheduler:                *)
(* api/admin/sync/route.ts, jobs/sync-products.ts                          *)

NoResponse == [code |-> 0, status |-> "none", data |-> [startedAt |-> <<>>]]

InitialSyncStatus ==
    [isRunning |-> FALSE, lastRun |-> <<>>, lastStatus |-> "idle", lastError |-> <<>>,
     lastDuration |-> <<>>, productsCreated |-> 0, productsUpdated |-> 0, errors |-> 0]

TriggerInit ==
    /\ syncStatus = InitialSyncStatus
    /\ activeRuns = {}
    /\ clock = 0
    /\ lastResponse = NoResponse
    /\ nPosts = 0

\* A POST that never finds a run in progress
IsAlreadyRunningNever(st) == FALSE

\* if (syncStatus.isRunning)
IsAlreadyRunning(st) == st.isRunning

\* POST /admin/sync/trigger while a run is in progress: 409, nothing else
PostRejected ==
    /\ nPosts < MaxPosts
    /\ IsAlreadyRunning(syncStatus)
    /\ nPosts' = nPosts + 1
    /\ lastResponse' = [code |-> 409, status |-> "error",
                        data |-> [startedAt |-> syncStatus.lastRun]]
    /\ UNCHANGED <<syncStatus, activeRuns, clock>>

\* POST /admin/sync/trigger otherwise: the status turns to running and the job starts
PostAccepted ==
    /\ nPosts < MaxPosts
    /\ ~IsAlreadyRunning(syncStatus)
    /\ nPosts' = nPosts + 1
    /\ syncStatus' = [syncStatus EXCEPT !.isRunning = TRUE, !.lastRun = <<clock>>,
                                        !.lastStatus = "running", !.lastError = <<>>]
    /\ activeRuns' = activeRuns \cup {[origin |-> "manual", startTime |-> clock]}
    /\ lastResponse' = [code |-> 200, status |-> "success",
                        data |-> [startedAt |-> <<clock>>]]
    /\ UNCHANGED clock

POST == PostRejected \/ PostAccepted

\* The callback records the outcome and leaves the status running
ManualJobResolvedStillRunning ==
    \E r \in activeRuns :
        /\ r.origin = "manual"
        /\ activeRuns' = activeRuns \ {r}
        /\ syncStatus' = [syncStatus EXCEPT !.lastDuration = <<clock - r.startTime>>]
        /\ UNCHANGED <<clock, lastResponse, nPosts>>

\* syncProductsJob(req.scope).then(...): the manual run's job has returned
ManualJobResolved ==
    \E r \in activeRuns :
        /\ r.origin = "manual"
        /\ activeRuns' = activeRuns \ {r}
        /\ syncStatus' = [syncStatus EXCEPT !.isRunning = FALSE, !.lastStatus = "success",
                                            !.lastDuration = <<clock - r.startTime>>]
        /\ UNCHANGED <<clock, lastResponse, nPosts>>

\* The callback records the error and leaves lastStatus as it was
ManualJobRejectedKeepingStatus ==
    \E r \in activeRuns :
        /\ r.origin = "manual"
        /\ activeRuns' = activeRuns \ {r}
        /\ syncStatus' = [syncStatus EXCEPT !.isRunning = FALSE,
                                            !.lastError = <<"message">>,
                                            !.lastDuration = <<clock - r.startTime>>]
        /\ UNCHANGED <<clock, lastResponse, nPosts>>

\* syncProductsJob(req.scope).catch(...): the manual run's job has thrown
ManualJobRejected ==
    \E r \in activeRuns :
        /\ r.origin = "manual"
        /\ activeRuns' = activeRuns \ {r}
        /\ syncStatus' = [syncStatus EXCEPT !.isRunning = FALSE, !.lastStatus = "error",
                                            !.lastError = <<"message">>,
                                            !.lastDuration = <<clock - r.startTime>>]
        /\ UNCHANGED <<clock, lastResponse, nPosts>>

\* GET /admin/sync/status
GET ==
    /\ lastResponse' =
          [code |-> 200, status |-> "success",
           data |-> [isRunning |-> syncStatus.isRunning, lastRun |-> syncStatus.lastRun,
                     lastStatus |-> syncStatus.lastStatus, lastError |-> syncStatus.lastError,
                     lastDuration |-> syncStatus.lastDuration,
                     stats |-> [created |-> syncStatus.productsCreated,
                                updated |-> syncStatus.productsUpdated,
                                errors |-> syncStatus.errors]]]
    /\ UNCHANGED <<syncStatus, activeRuns, clock, nPosts>>

\* The scheduler fires config.schedule and calls syncProductsJob(container) itself.
\* It is taken not to start the job again while its own previous execution runs.
ScheduledJobStart ==
    /\ \A r \in activeRuns : r.origin # "scheduled"
    /\ activeRuns' = activeRuns \cup {[origin |-> "scheduled", startTime |-> clock]}
    /\ UNCHANGED <<syncStatus, clock, lastResponse, nPosts>>

\* The scheduled execution returns; nobody records its outcome
ScheduledJobReturn ==
    \E r \in activeRuns :
        /\ r.origin = "scheduled"
        /\ activeRuns' = activeRuns \ {r}
        /\ UNCHANGED <<syncStatus, clock, lastResponse, nPosts>>

Tick ==
    /\ clock < MaxClock
    /\ clock' = clock + 1
    /\ UNCHANGED <<syncStatus, activeRuns, lastResponse, nPosts>>

-----------------------------------------------------------------------------
(* The pool and the store at rest *)

NoStats ==
    [totalProductsProcessed |-> 0, totalProductsCreated |-> 0, totalProductsUpdated |-> 0,
     totalCategoriesCreated |-> 0, totalErrors |-> 0, batchesProcessed |-> 0,
     batchesFailed |-> 0, completedCount |-> 0]

PoolAtRest ==
    /\ totalProducts = 0
    /\ batchSize = 1
    /\ workerCount = 1
    /\ allTasks = <<>>
    /\ workers = <<>>
    /\ stats = NoStats
    /\ phase = "idle"
    /\ run = 0
    /\ pageRequests = <<>>
    /\ runStats = <<>>

NoCalls == [calls |-> 0, byHandle |-> <<>>]

\* One more call, naming the handles of its inputs
withCall(log, toCreate) ==
    LET named == {toCreate[i].handle : i \in DOMAIN toCreate}
    IN  [calls |-> log.calls + 1,
         byHandle |-> [h \in DOMAIN log.byHandle \cup named |->
                          (IF h \in DOMAIN log.byHandle THEN log.byHandle[h] ELSE 0)
                          + (IF h \in named THEN 1 ELSE 0)]]

StoreAtRest ==
    /\ feed = <<>>
    /\ products = <<>>
    /\ categories = <<>>
    /\ createCalls = NoCalls
    /\ faults = 0

\* No call of a fetch client under way; the service's retries at their default
FetchAtRest ==
    /\ client = "service"
    /\ config = [retries |-> 3]
    /\ attempt = 0
    /\ fetchPc = "start"
    /\ requests = 0
    /\ received = <<>>
    /\ sleeps = <<>>
    /\ pacing = <<>>
    /\ fetchResult = <<>>

\* const SAFE_MAX = parseInt(process.env.SYNC_SAFE_MAX || "5000"), SYNC_SAFE_MAX not set
SAFE_MAX == 5000

EnvAtDefault == safeMax = SAFE_MAX

\* the earlier job (create and update issued as separate batched calls) is not
\* running
NoLegacySync ==
    [pc |-> "idle", BATCH_SIZE |-> 0, productsToCreate |-> <<>>, productsToUpdate |-> <<>>,
     batchNum |-> 0, createdCount |-> 0, updatedCount |-> 0, errorCount |-> 0,
     attempted |-> <<>>]

\* fetchAllProducts is not running
NoFetchAll ==
    [pc |-> "idle", PAGE_SIZE |-> 0, skip |-> 0, hasMore |-> TRUE, allProducts |-> <<>>,
     requested |-> <<>>]

LegacyAtRest == legacySync = NoLegacySync /\ fetchAll = NoFetchAll

-----------------------------------------------------------------------------
(* Specification of the trigger and the scheduler *)

TriggerNext ==
    \/ PostRejected /\ UNCHANGED <<poolVars, storeVars, fetchVars, envVars, legacyVars>>
    \/ PostAccepted /\ UNCHANGED <<poolVars, storeVars, fetchVars, envVars, legacyVars>>
    \/ ManualJobResolved /\ UNCHANGED <<poolVars, storeVars, fetchVars, envVars, legacyVars>>
    \/ GET /\ UNCHANGED <<poolVars, storeVars, fetchVars, envVars, legacyVars>>
    \/ ScheduledJobStart /\ UNCHANGED <<poolVars, storeVars, fetchVars, envVars, legacyVars>>
    \/ ScheduledJobReturn /\ UNCHANGED <<poolVars, storeVars, fetchVars, envVars, legacyVars>>
    \/ Tick /\ UNCHANGED <<poolVars, storeVars, fetchVars, envVars, legacyVars>>

TriggerSpecInit == TriggerInit /\ PoolAtRest /\ StoreAtRest /\ FetchAtRest /\ EnvAtDefault
    /\ LegacyAtRest

SpecTrigger == TriggerSpecInit /\ [][TriggerNext]_vars

-----------------------------------------------------------------------------
(* Specification of task generation *)

TasksInit ==
    /\ totalProducts \in 0..MaxTotal
    /\ batchSize \in 1..MaxBatchSize
    /\ workerCount \in 1..MaxWorkers
    /\ allTasks = <<>>
    /\ workers = <<>>
    /\ stats = NoStats
    /\ phase = "idle"
    /\ run = 0
    /\ pageRequests = <<>>
    /\ runStats = <<>>

\* const allTasks = generateBatchTasks(totalProducts, batchSize)
GenerateTasks ==
    /\ phase = "idle"
    /\ allTasks' = generateBatchTasks(totalProducts, batchSize)
    /\ phase' = "generated"
    /\ UNCHANGED <<totalProducts, batchSize, workerCount, pageRequests, workers, stats, run, runStats>>

\* const workerTaskGroups = distributeTasksToWorkers(allTasks, concurrencyLimit),
\* each group handed to processTaskList
DistributeTasks ==
    /\ phase = "generated"
    /\ workers' = [w \in 1..workerCount |->
                     chainOver(distributeTasksToWorkers(allTasks, workerCount)[w])]
    /\ phase' = "distributed"
    /\ UNCHANGED <<totalProducts, batchSize, workerCount, pageRequests, allTasks, stats, run, runStats>>

TasksNext ==
    \/ GenerateTasks /\ UNCHANGED <<triggerVars, storeVars, fetchVars, envVars, legacyVars>>
    \/ DistributeTasks /\ UNCHANGED <<triggerVars, storeVars, fetchVars, envVars, legacyVars>>

TasksSpecInit == TriggerInit /\ TasksInit /\ StoreAtRest /\ FetchAtRest /\ EnvAtDefault
    /\ LegacyAtRest

SpecTasks == TasksSpecInit /\ [][TasksNext]_vars

-----------------------------------------------------------------------------
(* The product module's store, as the workflow uses it *)

\* listProductCategories({ handle: handles }): the categories with one of the handles
listProductCategories(cats, handles) ==
    SelectIndices([i \in DOMAIN cats |-> [id |-> i, name |-> cats[i].name, handle |-> cats[i].handle]],
                  {i \in DOMAIN cats : cats[i].handle \in handles})

\* createProductCategories(toCreate): one category per input, in the order given
createProductCategories(cats, toCreate) ==
    cats \o [i \in DOMAIN toCreate |-> [name |-> toCreate[i].name, handle |-> toCreate[i].handle]]

\* listProducts({ handle: handles }): the products with one of the handles
listProducts(prods, handles) ==
    SelectIndices([i \in DOMAIN prods |-> [id |-> i, handle |-> prods[i].handle]],
                  {i \in DOMAIN prods : prods[i].handle \in handles})

\* What a payload entry writes into a record
recordOf(e) ==
    [handle |-> e.handle, title |-> e.title, external_id |-> e.external_id,
     categories |-> e.categories]

\* An update that gives the record a handle made anew from the entry's external id
RECURSIVE upsertFromRehandling(_, _, _)
upsertFromRehandling(prods, payload, i) ==
    IF i > Len(payload) THEN prods
    ELSE IF payload[i].id # 0
         THEN upsertFromRehandling(
                  [prods EXCEPT ![payload[i].id] =
                      [recordOf(payload[i]) EXCEPT
                          !.handle = payload[i].handle \o <<"-">> \o payload[i].external_id]],
                  payload, i + 1)
         ELSE upsertFromRehandling(Append(prods, recordOf(payload[i])), payload, i + 1)

\* upsertProducts(payload): an entry with an id replaces that record's fields,
\* an entry without one becomes a new record
RECURSIVE upsertFrom(_, _, _)
upsertFrom(prods, payload, i) ==
    IF i > Len(payload) THEN prods
    ELSE IF payload[i].id # 0
         THEN upsertFrom([prods EXCEPT ![payload[i].id] = recordOf(payload[i])], payload, i + 1)
         ELSE upsertFrom(Append(prods, recordOf(payload[i])), payload, i + 1)

upsertProducts(prods, payload) == upsertFrom(prods, payload, 1)

-----------------------------------------------------------------------------
(* workflows/sync-batch.ts *)

\* new Map(rows.map((r) => [r.handle, r.id])).get(handle); 0 when the map has no such key
mapGet(rows, handle) ==
    LET hits == {i \in DOMAIN rows : rows[i].handle = handle}
    IN  IF hits = {} THEN 0
        ELSE rows[CHOOSE i \in hits : \A j \in hits : j <= i].id

\* syncCategoriesStep, up to the creation call: the names of the batch, the
\* existing categories found for them and the inputs still to create
categoryNamesOf(batch) == uniqueOf([i \in DOMAIN batch |-> batch[i].category])

existingNameToId(names, existing) ==
    LET found == {n \in Range(names) : mapGet(existing, slugify(n)) # 0}
    IN  [n \in found |-> mapGet(existing, slugify(n))]

\* Every name taken as missing, whatever the store answered
categoriesToCreateAll(names, existing) ==
    [i \in DOMAIN names |-> [name |-> names[i], handle |-> slugify(names[i])]]

categoriesToCreate(names, existing) ==
    LET missing == SelectIndices(names, {i \in DOMAIN names : mapGet(existing, slugify(names[i])) = 0})
    IN  [i \in DOMAIN missing |-> [name |-> missing[i], handle |-> slugify(missing[i])]]

\* created.forEach((c) => { nameToId[c.name] = c.id }), the ids following firstId
withCreated(nameToId, toCreate, firstId) ==
    LET names == {toCreate[i].name : i \in DOMAIN toCreate}
    IN  [n \in DOMAIN nameToId \cup names |->
            IF n \in names
            THEN firstId + (CHOOSE i \in DOMAIN toCreate : toCreate[i].name = n)
            ELSE nameToId[n]]

\* upsertProductsStep, "Resolve Handles & Deduplicate"
RECURSIVE resolveFrom(_, _, _)
resolveFrom(batch, i, seenHandles) ==
    IF i > Len(batch) THEN <<>>
    ELSE LET slug == slugify(batch[i].title)
             handle == IF slug \in seenHandles
                       THEN slug \o <<"-">> \o toString(batch[i].id)
                       ELSE slug
         IN  <<handle>> \o resolveFrom(batch, i + 1, seenHandles \cup {handle})

resolveHandles(batch) == resolveFrom(batch, 1, {})

\* A lookup that finds no existing product
existingIdOfNone(existingProducts, handle) == 0

\* const existingId = handleToId.get(p.handle)
existingIdOf(existingProducts, handle) == mapGet(existingProducts, handle)

\* upsertProductsStep, "Map payload"
upsertPayload(batch, existingProducts, categoryMap) ==
    LET handles == resolveHandles(batch)
    IN  [i \in DOMAIN batch |->
            [id |-> existingIdOf(existingProducts, handles[i]),
             title |-> batch[i].title,
             handle |-> handles[i],
             categories |-> IF batch[i].category \in DOMAIN categoryMap
                            THEN {categoryMap[batch[i].category]}
                            ELSE {},
             external_id |-> toString(batch[i].id)]]

\* Every entry of the payload counted as a create, the updates included
productsCreatedInAll(payload) == Len(payload)

productsCreatedIn(payload) == Cardinality({i \in DOMAIN payload : payload[i].id = 0})

productsUpdatedIn(payload) == Cardinality({i \in DOMAIN payload : payload[i].id # 0})

-----------------------------------------------------------------------------
(* The handles of the earlier job: unnamed/part_002 *)

\* .replace(/[^a-z0-9]+/g, "-"): every run of other characters becomes one hyphen
RECURSIVE replaceOtherRuns(_)
replaceOtherRuns(s) ==
    IF s = <<>> THEN <<>>
    ELSE IF s[1] \in Range(Lower) \cup Range(DigitChars)
         THEN <<s[1]>> \o replaceOtherRuns(Tail(s))
         ELSE IF Len(s) >= 2 /\ s[2] \notin Range(Lower) \cup Range(DigitChars)
              THEN replaceOtherRuns(Tail(s))
              ELSE <<"-">> \o replaceOtherRuns(Tail(s))

\* .replace(/^-+|-+$/g, "")
RECURSIVE stripHyphens(_)
stripHyphens(s) ==
    IF s = <<>> THEN <<>>
    ELSE IF s[1] = "-" THEN stripHyphens(Tail(s))
    ELSE IF s[Len(s)] = "-" THEN stripHyphens(SubSeq(s, 1, Len(s) - 1))
    ELSE s

\* mapToMedusaFormat: rawHandle
rawHandle(title) == stripHyphens(replaceOtherRuns(toLowerCase(title)))

\* while (usedHandles.has(handle) || dbHandles.has(handle))
\*     { handle = `${originalHandle}-${counter}`; counter++ }
RECURSIVE uniqueHandle(_, _, _, _)
uniqueHandle(handle, originalHandle, counter, taken) ==
    IF handle \in taken
    THEN uniqueHandle(originalHandle \o <<"-">> \o toString(counter), originalHandle,
                      counter + 1, taken)
    ELSE handle

\* The loop over the external products, none of them in the catalog yet
RECURSIVE uniqueHandlesFrom(_, _, _, _)
uniqueHandlesFrom(externalProducts, i, usedHandles, dbHandles) ==
    IF i > Len(externalProducts) THEN <<>>
    ELSE LET originalHandle == rawHandle(externalProducts[i].title)
             handle == uniqueHandle(originalHandle, originalHandle, 1,
                                    usedHandles \cup dbHandles)
         IN  <<handle>> \o uniqueHandlesFrom(externalProducts, i + 1,
                                              usedHandles \cup {handle}, dbHandles)

-----------------------------------------------------------------------------
(* The feed *)

\* GET ?limit=<limit>&skip=<skip>: the items at positions skip+1 .. skip+limit
fetchProductsPage(items, limit, skip) ==
    SubSeq(items, skip + 1, IF skip + limit < Len(items) THEN skip + limit ELSE Len(items))

-----------------------------------------------------------------------------
(* The worker pool: utils/product-sync-helpers.ts *)

\* The counters written from the batch alone, what the other batches added is lost
updateStatsFromResultOverwriting(st, result, errors, batchLength) ==
    IF errors > 0
    THEN [st EXCEPT !.totalErrors = errors,
                    !.batchesFailed = 1]
    ELSE [st EXCEPT !.totalProductsCreated = result.productsCreated,
                    !.totalProductsUpdated = result.productsUpdated,
                    !.totalCategoriesCreated = result.categoriesCreated,
                    !.totalProductsProcessed = batchLength,
                    !.batchesProcessed = 1]

\* updateStatsFromResult; errors is the number of errors the workflow returned
updateStatsFromResult(st, result, errors, batchLength) ==
    IF errors > 0
    THEN [st EXCEPT !.totalErrors = @ + errors,
                    !.batchesFailed = @ + 1]
    ELSE [st EXCEPT !.totalProductsCreated = @ + result.productsCreated,
                    !.totalProductsUpdated = @ + result.productsUpdated,
                    !.totalCategoriesCreated = @ + result.categoriesCreated,
                    !.totalProductsProcessed = @ + batchLength,
                    !.batchesProcessed = @ + 1]

\* The failed fetch counted as a failed batch and as a processed one
handleFetchErrorCountingBoth(st) ==
    [st EXCEPT !.completedCount = @ + 1,
               !.totalErrors = @ + 1,
               !.batchesFailed = @ + 1,
               !.batchesProcessed = @ + 1]

\* handleFetchError
handleFetchError(st) ==
    [st EXCEPT !.completedCount = @ + 1,
               !.totalErrors = @ + 1,
               !.batchesFailed = @ + 1]

\* processAllBatchesInParallel up to Promise.all: tasks generated and dealt, workers started
StartRun(runs) ==
    /\ phase \in {"idle", "done"}
    /\ run < runs
    /\ run' = run + 1
    /\ phase' = "running"
    /\ stats' = NoStats
    /\ createCalls' = NoCalls
    /\ allTasks' = generateBatchTasks(totalProducts, batchSize)
    /\ workers' = [w \in 1..workerCount |->
                     chainOver(distributeTasksToWorkers(allTasks', workerCount)[w])]
    /\ pageRequests' = [w \in 1..workerCount |-> <<>>]
    /\ UNCHANGED <<totalProducts, batchSize, workerCount, runStats, feed, products, categories, faults>>

\* processSingleTask: the page arrives; an empty page ends the task, otherwise the
\* workflow starts and syncCategoriesStep asks the store for the existing categories
FetchReturn(w) ==
    /\ phase = "running"
    /\ workers[w].pc = "fetch"
    /\ LET task == Head(workers[w].tasks)
           page == fetchProductsPage(feed, task.batchSize, task.skip)
       IN  /\ workers' = [workers EXCEPT ![w] =
                             IF page = <<>>
                             THEN chainOver(Tail(@.tasks))
                             ELSE [@ EXCEPT !.pc = "listCategories", !.batch = page]]
           /\ pageRequests' = [pageRequests EXCEPT ![w] =
                                  Append(@, [skip |-> task.skip, products |-> Len(page)])]
    /\ UNCHANGED <<totalProducts, batchSize, workerCount, allTasks, stats, phase, run, runStats, storeVars>>

\* processSingleTask: the fetch has used up its retries; handleFetchError
FetchFail(w) ==
    /\ phase = "running"
    /\ workers[w].pc = "fetch"
    /\ faults < MaxFaults
    /\ faults' = faults + 1
    /\ stats' = handleFetchError(stats)
    /\ workers' = [workers EXCEPT ![w] = chainOver(Tail(@.tasks))]
    /\ pageRequests' = [pageRequests EXCEPT ![w] =
                           Append(@, [skip |-> Head(workers[w].tasks).skip, products |-> -1])]
    /\ UNCHANGED <<totalProducts, batchSize, workerCount, allTasks, phase, run, runStats,
                   feed, products, categories, createCalls>>

\* syncCategoriesStep: the existing categories arrive; the missing ones are sent to
\* createProductCategories in one call, or the step returns and upsertProductsStep
\* asks the store for the existing products
ListCategoriesReturn(w) ==
    /\ phase = "running"
    /\ workers[w].pc = "listCategories"
    /\ LET names == categoryNamesOf(workers[w].batch)
           handles == {slugify(n) : n \in Range(names)}
           existing == listProductCategories(categories, handles)
           toCreate == categoriesToCreate(names, existing)
       IN  /\ workers' = [workers EXCEPT ![w] =
                  [@ EXCEPT !.pc = IF toCreate = <<>> THEN "listProducts" ELSE "createCategories",
                            !.nameToId = existingNameToId(names, existing),
                            !.toCreate = toCreate]]
           /\ createCalls' = IF toCreate = <<>> THEN createCalls ELSE withCall(createCalls, toCreate)
    /\ UNCHANGED <<totalProducts, batchSize, workerCount, pageRequests, allTasks, stats, phase, run, runStats,
                   feed, products, categories, faults>>

\* syncCategoriesStep: the categories are created; upsertProductsStep starts
CreateCategoriesReturn(w) ==
    /\ phase = "running"
    /\ workers[w].pc = "createCategories"
    /\ categories' = createProductCategories(categories, workers[w].toCreate)
    /\ workers' = [workers EXCEPT ![w] =
           [@ EXCEPT !.pc = "listProducts",
                     !.nameToId = withCreated(@, workers[w].toCreate, Len(categories))]]
    /\ UNCHANGED <<totalProducts, batchSize, workerCount, pageRequests, allTasks, stats, phase, run, runStats,
                   feed, products, createCalls, faults>>

\* The workflow's failure rejects the worker's chain: its remaining tasks are dropped
workflowFailedAborting(w) ==
    /\ faults < MaxFaults
    /\ faults' = faults + 1
    /\ stats' = updateStatsFromResult([stats EXCEPT !.completedCount = @ + 1],
                                      <<>>, 1, Len(workers[w].batch))
    /\ workers' = [workers EXCEPT ![w] = chainOver(<<>>)]

\* The workflow has returned one error (throwOnError: false) and the worker's
\* .then callback has recorded it
workflowFailed(w) ==
    /\ faults < MaxFaults
    /\ faults' = faults + 1
    /\ stats' = updateStatsFromResult([stats EXCEPT !.completedCount = @ + 1],
                                      <<>>, 1, Len(workers[w].batch))
    /\ workers' = [workers EXCEPT ![w] = chainOver(Tail(@.tasks))]

\* syncCategoriesStep: createProductCategories throws; the step fails and with it the workflow
CreateCategoriesFail(w) ==
    /\ phase = "running"
    /\ workers[w].pc = "createCategories"
    /\ workflowFailed(w)
    /\ UNCHANGED <<totalProducts, batchSize, workerCount, pageRequests, allTasks, phase, run, runStats,
                   feed, products, categories, createCalls>>

\* upsertProductsStep: the existing products arrive; the payload is built and sent
ListProductsReturn(w) ==
    /\ phase = "running"
    /\ workers[w].pc = "listProducts"
    /\ LET handles == Range(resolveHandles(workers[w].batch))
           existingProducts == listProducts(products, handles)
       IN  workers' = [workers EXCEPT ![w] =
               [@ EXCEPT !.pc = "upsert",
                         !.payload = upsertPayload(workers[w].batch, existingProducts,
                                                   workers[w].nameToId)]]
    /\ UNCHANGED <<totalProducts, batchSize, workerCount, pageRequests, allTasks, stats, phase, run, runStats, storeVars>>

\* upsertProductsStep: the store has applied the payload; the workflow returns its
\* result and the worker's .then callback updates the stats
UpsertReturn(w) ==
    /\ phase = "running"
    /\ workers[w].pc = "upsert"
    /\ products' = upsertProducts(products, workers[w].payload)
    /\ stats' = updateStatsFromResult(
                    [stats EXCEPT !.completedCount = @ + 1],
                    [productsCreated |-> productsCreatedIn(workers[w].payload),
                     productsUpdated |-> productsUpdatedIn(workers[w].payload),
                     categoriesCreated |-> Len(workers[w].toCreate)],
                    0, Len(workers[w].batch))
    /\ workers' = [workers EXCEPT ![w] = chainOver(Tail(@.tasks))]
    /\ UNCHANGED <<totalProducts, batchSize, workerCount, pageRequests, allTasks, phase, run, runStats,
                   feed, categories, createCalls, faults>>

\* upsertProductsStep: upsertProducts throws; the step fails and with it the workflow
UpsertFail(w) ==
    /\ phase = "running"
    /\ workers[w].pc = "upsert"
    /\ workflowFailed(w)
    /\ UNCHANGED <<totalProducts, batchSize, workerCount, pageRequests, allTasks, phase, run, runStats,
                   feed, products, categories, createCalls>>

\* The run resolves with the first worker to finish (Promise.race)
AllWorkersFinishedRace ==
    /\ phase = "running"
    /\ \E w \in DOMAIN workers : workers[w].pc = "finished"
    /\ phase' = "done"
    /\ runStats' = Append(runStats, [stats |-> stats, catalogSize |-> Len(products)])
    /\ UNCHANGED <<totalProducts, batchSize, workerCount, pageRequests, allTasks, workers, stats, run, storeVars>>

\* Promise.all(workerPromises) resolves
AllWorkersFinished ==
    /\ phase = "running"
    /\ \A w \in DOMAIN workers : workers[w].pc = "finished"
    /\ phase' = "done"
    /\ runStats' = Append(runStats, [stats |-> stats, catalogSize |-> Len(products)])
    /\ UNCHANGED <<totalProducts, batchSize, workerCount, pageRequests, allTasks, workers, stats, run, storeVars>>

-----------------------------------------------------------------------------
(* Specification of the worker pool over the feed and the store *)

\* The kinds of item a feed is made of: titles that differ and slugify alike,
\* a title of its own, categories that differ and slugify alike, a category of its own
SyncItems ==
    {[title |-> <<"A">>, category |-> <<"X">>],
     [title |-> <<"a">>, category |-> <<"y">>],
     [title |-> <<"b">>, category |-> <<"x">>]}

SyncBatchSizes == {1, 2}
SyncWorkerCounts == {1, 2}

\* The feeds of n items with the external ids 1..n
FeedsOf(n) ==
    {f \in [1..n -> [id : 1..n, title : {k.title : k \in SyncItems},
                     category : {k.category : k \in SyncItems}]] :
        \A i \in 1..n : /\ f[i].id = i
                        /\ [title |-> f[i].title, category |-> f[i].category] \in SyncItems}

SyncInit ==
    /\ feed \in FeedsOf(MaxItems)
    /\ products = <<>>
    /\ categories = <<>>
    /\ createCalls = NoCalls
    /\ faults = 0
    /\ totalProducts = Len(feed)
    /\ batchSize \in SyncBatchSizes
    /\ workerCount \in SyncWorkerCounts
    /\ allTasks = <<>>
    /\ workers = <<>>
    /\ stats = NoStats
    /\ phase = "idle"
    /\ run = 0
    /\ pageRequests = <<>>
    /\ runStats = <<>>

\* Runs one after the other, the feed unchanged between them, nothing failing
SyncNext ==
    \/ StartRun(MaxRuns) /\ UNCHANGED <<triggerVars, fetchVars, envVars, legacyVars>>
    \/ \E w \in DOMAIN workers : FetchReturn(w) /\ UNCHANGED <<triggerVars, fetchVars, envVars, legacyVars>>
    \/ \E w \in DOMAIN workers : ListCategoriesReturn(w) /\ UNCHANGED <<triggerVars, fetchVars, envVars, legacyVars>>
    \/ \E w \in DOMAIN workers : CreateCategoriesReturn(w) /\ UNCHANGED <<triggerVars, fetchVars, envVars, legacyVars>>
    \/ \E w \in DOMAIN workers : ListProductsReturn(w) /\ UNCHANGED <<triggerVars, fetchVars, envVars, legacyVars>>
    \/ \E w \in DOMAIN workers : UpsertReturn(w) /\ UNCHANGED <<triggerVars, fetchVars, envVars, legacyVars>>
    \/ AllWorkersFinished /\ UNCHANGED <<triggerVars, fetchVars, envVars, legacyVars>>

\* One run in which the feed and the store may fail
FaultyNext ==
    \/ StartRun(1) /\ UNCHANGED <<triggerVars, fetchVars, envVars, legacyVars>>
    \/ \E w \in DOMAIN workers : FetchReturn(w) /\ UNCHANGED <<triggerVars, fetchVars, envVars, legacyVars>>
    \/ \E w \in DOMAIN workers : FetchFail(w) /\ UNCHANGED <<triggerVars, fetchVars, envVars, legacyVars>>
    \/ \E w \in DOMAIN workers : ListCategoriesReturn(w) /\ UNCHANGED <<triggerVars, fetchVars, envVars, legacyVars>>
    \/ \E w \in DOMAIN workers : CreateCategoriesReturn(w) /\ UNCHANGED <<triggerVars, fetchVars, envVars, legacyVars>>
    \/ \E w \in DOMAIN workers : CreateCategoriesFail(w) /\ UNCHANGED <<triggerVars, fetchVars, envVars, legacyVars>>
    \/ \E w \in DOMAIN workers : ListProductsReturn(w) /\ UNCHANGED <<triggerVars, fetchVars, envVars, legacyVars>>
    \/ \E w \in DOMAIN workers : UpsertReturn(w) /\ UNCHANGED <<triggerVars, fetchVars, envVars, legacyVars>>
    \/ \E w \in DOMAIN workers : UpsertFail(w) /\ UNCHANGED <<triggerVars, fetchVars, envVars, legacyVars>>
    \/ AllWorkersFinished /\ UNCHANGED <<triggerVars, fetchVars, envVars, legacyVars>>

SyncSpecInit == TriggerInit /\ SyncInit /\ FetchAtRest /\ EnvAtDefault
    /\ LegacyAtRest

SpecFaulty == SyncSpecInit /\ [][FaultyNext]_vars

SpecSync == SyncSpecInit /\ [][SyncNext]_vars

\* Feeds shorter than the tasks and the workers of a run: config.totalProducts may
\* exceed what the feed holds, and config.workerCount the number of tasks
PoolFeedSizes == {1, 2}
PoolWorkerCounts == {1, 2, 3}

PoolInit ==
    /\ \E n \in PoolFeedSizes : feed \in FeedsOf(n)
    /\ products = <<>>
    /\ categories = <<>>
    /\ createCalls = NoCalls
    /\ faults = 0
    /\ totalProducts \in {Len(feed), Len(feed) + 1}
    /\ batchSize \in SyncBatchSizes
    /\ workerCount \in PoolWorkerCounts
    /\ allTasks = <<>>
    /\ workers = <<>>
    /\ stats = NoStats
    /\ phase = "idle"
    /\ run = 0
    /\ pageRequests = <<>>
    /\ runStats = <<>>

PoolSpecInit ==
    /\ TriggerInit
    /\ PoolInit
    /\ FetchAtRest
    /\ EnvAtDefault
    /\ LegacyAtRest

\* One run of the worker pool, the feed and the store able to fail
SpecPool == PoolSpecInit /\ [][FaultyNext]_vars

-----------------------------------------------------------------------------
(* The sequential job: jobs/sync-products.ts. Its loop is held as one      *)
(* worker whose task list is the page being fetched and processed.         *)

\* while (hasMore && skip < SAFE_MAX), entered with hasMore = TRUE
jobLoopCondition(skip) == skip < safeMax

\* The loop is left: "Job completed successfully" and the statistics are logged
jobCompleted ==
    /\ workers' = <<chainOver(<<>>)>>
    /\ phase' = "done"
    /\ runStats' = Append(runStats, [stats |-> stats', catalogSize |-> Len(products')])

\* skip += BATCH_SIZE; if (skip >= data.total) hasMore = false; then the loop's test
jobPaginate ==
    LET skip == Head(workers[1].tasks).skip + batchSize
    IN  IF skip >= Len(feed) \/ ~jobLoopCondition(skip)
        THEN jobCompleted
        ELSE /\ workers' = <<chainOver(<<[skip |-> skip, batchSize |-> batchSize]>>)>>
             /\ UNCHANGED <<phase, runStats>>

\* syncProductsJob is called: the statistics are zeroed and the first page is asked for
JobStart ==
    /\ phase = "idle"
    /\ run' = run + 1
    /\ phase' = "running"
    /\ stats' = NoStats
    /\ createCalls' = NoCalls
    /\ workers' = <<chainOver(<<[skip |-> 0, batchSize |-> batchSize]>>)>>
    /\ UNCHANGED <<totalProducts, batchSize, workerCount, pageRequests, allTasks, runStats,
                   feed, products, categories, faults>>

\* The page arrives: an empty page ends the loop, otherwise the workflow starts
JobFetchReturn ==
    /\ phase = "running"
    /\ workers[1].pc = "fetch"
    /\ UNCHANGED <<totalProducts, batchSize, workerCount, pageRequests, allTasks, stats, run, storeVars>>
    /\ LET task == Head(workers[1].tasks)
           page == fetchProductsPage(feed, task.batchSize, task.skip)
       IN  IF page = <<>>
           THEN jobCompleted
           ELSE /\ workers' = [workers EXCEPT ![1] = [@ EXCEPT !.pc = "listCategories",
                                                               !.batch = page]]
                /\ UNCHANGED <<phase, runStats>>

\* fetchProductsPage throws, its retries used up: the outer catch logs "Job Crashed"
JobFetchFail ==
    /\ phase = "running"
    /\ workers[1].pc = "fetch"
    /\ faults < MaxFaults
    /\ faults' = faults + 1
    /\ workers' = <<chainOver(<<>>)>>
    /\ phase' = "crashed"
    /\ UNCHANGED <<totalProducts, batchSize, workerCount, pageRequests, allTasks, stats, run, runStats,
                   feed, products, categories, createCalls>>

\* The workflow returns its result; the statistics are updated and the loop goes on
JobUpsertReturn ==
    /\ phase = "running"
    /\ workers[1].pc = "upsert"
    /\ products' = upsertProducts(products, workers[1].payload)
    /\ stats' = updateStatsFromResult(
                    stats,
                    [productsCreated |-> productsCreatedIn(workers[1].payload),
                     productsUpdated |-> productsUpdatedIn(workers[1].payload),
                     categoriesCreated |-> Len(workers[1].toCreate)],
                    0, Len(workers[1].batch))
    /\ jobPaginate
    /\ UNCHANGED <<totalProducts, batchSize, workerCount, pageRequests, allTasks, run,
                   feed, categories, createCalls, faults>>

\* A step of the workflow throws; the workflow returns one error
\* (throwOnError: false), it is counted and the loop goes on
JobWorkflowFail ==
    /\ phase = "running"
    /\ workers[1].pc \in {"createCategories", "upsert"}
    /\ faults < MaxFaults
    /\ faults' = faults + 1
    /\ stats' = updateStatsFromResult(stats, <<>>, 1, Len(workers[1].batch))
    /\ UNCHANGED <<totalProducts, batchSize, workerCount, pageRequests, allTasks, run,
                   feed, products, categories, createCalls>>
    /\ jobPaginate

JobInit ==
    /\ feed \in FeedsOf(MaxItems)
    /\ products = <<>>
    /\ categories = <<>>
    /\ createCalls = NoCalls
    /\ faults = 0
    /\ totalProducts = Len(feed)
    /\ batchSize \in SyncBatchSizes
    /\ workerCount = 1
    /\ allTasks = <<>>
    /\ workers = <<>>
    /\ stats = NoStats
    /\ phase = "idle"
    /\ run = 0
    /\ pageRequests = <<>>
    /\ runStats = <<>>

JobNext ==
    \/ JobStart /\ UNCHANGED <<triggerVars, fetchVars, envVars, legacyVars>>
    \/ JobFetchReturn /\ UNCHANGED <<triggerVars, fetchVars, envVars, legacyVars>>
    \/ JobFetchFail /\ UNCHANGED <<triggerVars, fetchVars, envVars, legacyVars>>
    \/ ListCategoriesReturn(1) /\ UNCHANGED <<triggerVars, fetchVars, envVars, legacyVars>>
    \/ CreateCategoriesReturn(1) /\ UNCHANGED <<triggerVars, fetchVars, envVars, legacyVars>>
    \/ ListProductsReturn(1) /\ UNCHANGED <<triggerVars, fetchVars, envVars, legacyVars>>
    \/ JobUpsertReturn /\ UNCHANGED <<triggerVars, fetchVars, envVars, legacyVars>>
    \/ JobWorkflowFail /\ UNCHANGED <<triggerVars, fetchVars, envVars, legacyVars>>

JobSpecInit == TriggerInit /\ JobInit /\ FetchAtRest /\ EnvAtDefault
    /\ LegacyAtRest

SpecJob == JobSpecInit /\ [][JobNext]_vars

\* Titles of which one is another's slug followed by a hyphen and an external id
BatchTitles == {<<"a">>, <<"a", "-", "3">>, <<"b">>}

\* The feed is one page and the job's loop takes it as one batch
BatchInit ==
    /\ feed \in {f \in [1..MaxItems -> [id : 1..MaxItems, title : BatchTitles,
                                         category : {<<"x">>}]] :
                    \A i \in 1..MaxItems : f[i].id = i}
    /\ products = <<>>
    /\ categories = <<>>
    /\ createCalls = NoCalls
    /\ faults = 0
    /\ totalProducts = Len(feed)
    /\ batchSize = Len(feed)
    /\ workerCount = 1
    /\ allTasks = <<>>
    /\ workers = <<>>
    /\ stats = NoStats
    /\ phase = "idle"
    /\ run = 0
    /\ pageRequests = <<>>
    /\ runStats = <<>>

BatchSpecInit ==
    /\ TriggerInit
    /\ BatchInit
    /\ FetchAtRest
    /\ EnvAtDefault
    /\ LegacyAtRest

\* The job over one batch of such titles
SpecBatch == BatchSpecInit /\ [][JobNext]_vars

\* The values SYNC_SAFE_MAX gives SAFE_MAX
SafeMaxima == 1..MaxSafeMax

CappedSpecInit == TriggerInit /\ JobInit /\ FetchAtRest /\ safeMax \in SafeMaxima
    /\ LegacyAtRest

\* The job with SYNC_SAFE_MAX set
SpecCapped == CappedSpecInit /\ [][JobNext]_vars

-----------------------------------------------------------------------------
(* The manual run: POST of api/admin/sync/route.ts calling the sequential  *)
(* job of jobs/sync-products.ts and recording how its promise settles      *)

\* container.resolve("logger") throws before the job's try block is entered:
\* the promise of syncProductsJob is rejected
JobResolveFail ==
    /\ phase = "idle"
    /\ faults < MaxFaults
    /\ faults' = faults + 1
    /\ phase' = "rejected"
    /\ UNCHANGED <<totalProducts, batchSize, workerCount, pageRequests, allTasks, workers, stats, run,
                   runStats, feed, products, categories, createCalls>>

\* The promise of syncProductsJob is settled and its callback has run: no job is left
jobSettled ==
    /\ phase' = "idle"
    /\ UNCHANGED <<totalProducts, batchSize, workerCount, pageRequests, allTasks, workers, stats, run,
                   runStats, storeVars>>

\* POST accepted: the status turns to running and syncProductsJob runs up to its first await
ManualTrigger == PostAccepted /\ JobStart

\* POST accepted and syncProductsJob throws at once
ManualTriggerThrowing == PostAccepted /\ JobResolveFail

\* The job has returned, after its loop or after its outer catch: the .then callback
ManualResolved ==
    /\ phase \in {"done", "crashed"}
    /\ ManualJobResolved
    /\ jobSettled

\* The job has thrown: the .catch callback
ManualRejected ==
    /\ phase = "rejected"
    /\ ManualJobRejected
    /\ jobSettled

\* The feed the manual runs read: the kinds of item in turn, the external ids 1..n
ManualFeed(n) ==
    LET kinds == <<[title |-> <<"A">>, category |-> <<"X">>],
                   [title |-> <<"a">>, category |-> <<"y">>],
                   [title |-> <<"b">>, category |-> <<"x">>]>>
    IN  [i \in 1..n |-> [id |-> i, title |-> kinds[((i - 1) % Len(kinds)) + 1].title,
                         category |-> kinds[((i - 1) % Len(kinds)) + 1].category]]

ManualInit ==
    /\ feed = ManualFeed(MaxItems)
    /\ products = <<>>
    /\ categories = <<>>
    /\ createCalls = NoCalls
    /\ faults = 0
    /\ totalProducts = Len(feed)
    /\ batchSize \in SyncBatchSizes
    /\ workerCount = 1
    /\ allTasks = <<>>
    /\ workers = <<>>
    /\ stats = NoStats
    /\ phase = "idle"
    /\ run = 0
    /\ pageRequests = <<>>
    /\ runStats = <<>>

\* The awaited fetch and store writes return or throw, and the callbacks of the
\* job's settled promise run
ManualReturning ==
    \/ JobFetchReturn /\ UNCHANGED <<triggerVars, fetchVars, envVars, legacyVars>>
    \/ JobFetchFail /\ UNCHANGED <<triggerVars, fetchVars, envVars, legacyVars>>
    \/ CreateCategoriesReturn(1) /\ UNCHANGED <<triggerVars, fetchVars, envVars, legacyVars>>
    \/ JobUpsertReturn /\ UNCHANGED <<triggerVars, fetchVars, envVars, legacyVars>>
    \/ JobWorkflowFail /\ UNCHANGED <<triggerVars, fetchVars, envVars, legacyVars>>
    \/ ManualResolved /\ UNCHANGED <<fetchVars, envVars, legacyVars>>
    \/ ManualRejected /\ UNCHANGED <<fetchVars, envVars, legacyVars>>

\* The workflow awaits listProductCategories or listProducts
storeListPending ==
    phase = "running" /\ workers[1].pc \in {"listCategories", "listProducts"}

\* What the job and the callbacks of its promise do once a run is triggered
ManualProgress ==
    \/ ManualReturning
    \/ ListCategoriesReturn(1) /\ UNCHANGED <<triggerVars, fetchVars, envVars, legacyVars>>
    \/ ListProductsReturn(1) /\ UNCHANGED <<triggerVars, fetchVars, envVars, legacyVars>>

\* The requests the route answers
ManualRequests ==
    \/ ManualTrigger /\ UNCHANGED <<fetchVars, envVars, legacyVars>>
    \/ ManualTriggerThrowing /\ UNCHANGED <<fetchVars, envVars, legacyVars>>
    \/ PostRejected /\ UNCHANGED <<poolVars, storeVars, fetchVars, envVars, legacyVars>>
    \/ GET /\ UNCHANGED <<poolVars, storeVars, fetchVars, envVars, legacyVars>>

ManualNext ==
    \/ ManualRequests
    \/ Tick /\ UNCHANGED <<poolVars, storeVars, fetchVars, envVars, legacyVars>>
    \/ ManualProgress

\* The same with the clock left standing: the instants and durations recorded
\* play no part in whether a run completes
ManualLiveNext ==
    \/ ManualRequests
    \/ ManualProgress

ManualSpecInit == TriggerInit /\ ManualInit /\ FetchAtRest /\ EnvAtDefault
    /\ LegacyAtRest

SpecManual == ManualSpecInit /\ [][ManualNext]_vars

\* Every call the job awaits returns or throws, and the callbacks of a settled
\* promise run. The step that ends a pending list call is enabled whenever the call
\* is pending, so its weak fairness is the call not staying pending for ever.
SpecManualLive ==
    /\ ManualSpecInit
    /\ [][ManualLiveNext]_vars
    /\ WF_vars(ManualReturning)
    /\ []<>~storeListPending

-----------------------------------------------------------------------------
(* The fetch clients: services/dummy-json.ts and lib/retry.ts *)

\* Math.pow(b, e) for natural numbers
RECURSIVE Pow(_, _)
Pow(b, e) == IF e = 0 THEN 1 ELSE b * Pow(b, e - 1)

\* Math.min(a, b)
Min(a, b) == IF a < b THEN a ELSE b

\* parseInt(s) of a string of decimal digits
RECURSIVE parseInt(_)
parseInt(s) ==
    IF Len(s) = 0 THEN 0
    ELSE parseInt(SubSeq(s, 1, Len(s) - 1)) * 10
         + ((CHOOSE i \in DOMAIN DigitChars : DigitChars[i] = s[Len(s)]) - 1)

\* response.headers.get("Retry-After"): <<>> when the header is missing
RetryAfterHeaders == {<<>>, <<"0">>, <<"5">>}

\* What the feed may answer to one request
Responses ==
    {[status |-> 200, retryAfter |-> <<>>, body |-> b] : b \in {"page1", "page2"}}
    \cup {[status |-> 500, retryAfter |-> <<>>, body |-> "error"]}
    \cup {[status |-> 429, retryAfter |-> h, body |-> "error"] : h \in RetryAfterHeaders}

\* response.ok
ok(response) == response.status >= 200 /\ response.status <= 299

\* The failed attempts among the requests answered so far
failedAttempts(rcv) == {i \in DOMAIN rcv : rcv[i] = <<>> \/ ~ok(rcv[i][1])}

\* ---- DummyJsonService.fetchWithRetry

\* A loop that stops one attempt early
serviceLoopConditionEarly(att, retries) == att < retries

\* A loop that makes one attempt more
serviceLoopConditionLate(att, retries) == att <= retries + 1

\* for (let attempt = 1; attempt <= retries; attempt++)
serviceLoopCondition(att, retries) == att <= retries

\* The default delay, whatever the header says
serviceWaitTimeDefault(response, att) == 2000 * att

\* const waitTime = retryAfter ? parseInt(retryAfter) * 1000 : 2000 * attempt
serviceWaitTime(response, att) ==
    IF response.retryAfter # <<>>
    THEN parseInt(response.retryAfter) * 1000
    ELSE 2000 * att

\* const backoff = 1000 * Math.pow(2, attempt - 1)
serviceBackoff(att) == 1000 * Pow(2, att - 1)

\* The loop moves to attempt att: one more request, or the loop is over and
\* throw lastError || new Error("Unknown network error")
serviceIterate(att, lastError) ==
    /\ attempt' = att
    /\ IF serviceLoopCondition(att, config.retries)
       THEN /\ fetchPc' = "request"
            /\ requests' = requests + 1
            /\ fetchResult' = fetchResult
       ELSE /\ fetchPc' = "thrown"
            /\ requests' = requests
            /\ fetchResult' = [error |-> lastError]

\* private static RATE_LIMIT_DELAY = parseInt(process.env.SYNC_RATE_LIMIT_DELAY || "500")
RATE_LIMIT_DELAY == 500

\* fetchProductsPage(limit, skip) is called: await delay(RATE_LIMIT_DELAY), then
\* fetchWithRetry(url) up to its first request
ServiceCall ==
    /\ client = "service"
    /\ fetchPc = "start"
    /\ pacing' = Append(pacing, [ms |-> RATE_LIMIT_DELAY, before |-> 1])
    /\ serviceIterate(1, "Unknown network error")
    /\ UNCHANGED <<client, config, received, sleeps>>

\* catch (err): the backoff while attempts remain, then the next iteration
serviceCatch(lastError) ==
    /\ sleeps' = IF attempt < config.retries
                 THEN Append(sleeps, [ms |-> serviceBackoff(attempt), after |-> "error"])
                 ELSE sleeps
    /\ serviceIterate(attempt + 1, lastError)

\* await fetch(url) resolves with a response
ServiceResponse(response) ==
    /\ client = "service"
    /\ fetchPc = "request"
    /\ received' = Append(received, <<response>>)
    /\ IF response.status = 429
       THEN IF attempt < config.retries
            THEN /\ sleeps' = Append(sleeps, [ms |-> serviceWaitTime(response, attempt),
                                              after |-> "429"])
                 /\ serviceIterate(attempt + 1, "Unknown network error")
            ELSE serviceCatch("HTTP 429: Rate limited")
       ELSE IF ~ok(response)
            THEN serviceCatch("HTTP error")
            ELSE /\ fetchPc' = "returned"
                 /\ fetchResult' = [value |-> response]
                 /\ UNCHANGED <<attempt, requests, sleeps>>
    /\ UNCHANGED <<client, config>>

\* await fetch(url) rejects
ServiceRejected ==
    /\ client = "service"
    /\ fetchPc = "request"
    /\ received' = Append(received, <<>>)
    /\ serviceCatch("network error")
    /\ UNCHANGED <<client, config>>

\* ---- lib/retry.ts fetchWithRetry

\* The delay without the cap
libDelayUncapped(cfg, att) == cfg.initialDelayMs * Pow(cfg.backoffMultiplier, att)

\* Math.min(initialDelayMs * Math.pow(backoffMultiplier, attempt), maxDelayMs)
libDelay(cfg, att) ==
    Min(cfg.initialDelayMs * Pow(cfg.backoffMultiplier, att), cfg.maxDelayMs)

\* for (let attempt = 0; attempt <= config.maxRetries; attempt++)
libLoopCondition(att, maxRetries) == att <= maxRetries

\* The loop moves to attempt att: one more request, or the loop is over and
\* throw new Error(`Failed after ${config.maxRetries + 1} attempts: ...`)
libIterate(att) ==
    /\ attempt' = att
    /\ IF libLoopCondition(att, config.maxRetries)
       THEN /\ fetchPc' = "request"
            /\ requests' = requests + 1
            /\ fetchResult' = fetchResult
       ELSE /\ fetchPc' = "thrown"
            /\ requests' = requests
            /\ fetchResult' = [error |-> "Failed after attempts"]

\* fetchWithRetry(url, options) is called
LibCall ==
    /\ client = "lib"
    /\ fetchPc = "start"
    /\ libIterate(0)
    /\ UNCHANGED <<client, config, received, sleeps>>

\* catch (error): break on the last attempt, otherwise the delay and the next iteration
libCatch ==
    IF attempt = config.maxRetries
    THEN /\ fetchPc' = "thrown"
         /\ fetchResult' = [error |-> "Failed after attempts"]
         /\ UNCHANGED <<attempt, requests, sleeps>>
    ELSE /\ sleeps' = Append(sleeps, [ms |-> libDelay(config, attempt), after |-> "error"])
         /\ libIterate(attempt + 1)

\* await fetch(url) resolves with a response
LibResponse(response) ==
    /\ client = "lib"
    /\ fetchPc = "request"
    /\ received' = Append(received, <<response>>)
    /\ IF ~ok(response)
       THEN libCatch
       ELSE /\ fetchPc' = "returned"
            /\ fetchResult' = [value |-> response.body]
            /\ UNCHANGED <<attempt, requests, sleeps>>
    /\ UNCHANGED <<client, config>>

\* await fetch(url) rejects
LibRejected ==
    /\ client = "lib"
    /\ fetchPc = "request"
    /\ received' = Append(received, <<>>)
    /\ libCatch
    /\ UNCHANGED <<client, config>>

\* ---- Specification of one call of a fetch client

\* The options a caller may merge over DEFAULT_OPTIONS
LibConfigs ==
    [maxRetries : 0..MaxRetries, initialDelayMs : {1000}, maxDelayMs : {30000, 3000},
     backoffMultiplier : {2}]

\* The retries argument: parseInt(process.env.SYNC_MAX_RETRIES || "3")
ServiceConfigs == [retries : 0..MaxRetries]

FetchInit ==
    /\ client \in {"service", "lib"}
    /\ config \in (IF client = "service" THEN ServiceConfigs ELSE LibConfigs)
    /\ attempt = 0
    /\ fetchPc = "start"
    /\ requests = 0
    /\ received = <<>>
    /\ sleeps = <<>>
    /\ pacing = <<>>
    /\ fetchResult = <<>>

FetchNext ==
    \/ ServiceCall /\ UNCHANGED <<triggerVars, poolVars, storeVars, envVars, legacyVars>>
    \/ \E response \in Responses :
          ServiceResponse(response)
              /\ UNCHANGED <<triggerVars, poolVars, storeVars, envVars, legacyVars, pacing>>
    \/ ServiceRejected /\ UNCHANGED <<triggerVars, poolVars, storeVars, envVars, legacyVars, pacing>>
    \/ LibCall /\ UNCHANGED <<triggerVars, poolVars, storeVars, envVars, legacyVars, pacing>>
    \/ \E response \in Responses :
          LibResponse(response)
              /\ UNCHANGED <<triggerVars, poolVars, storeVars, envVars, legacyVars, pacing>>
    \/ LibRejected /\ UNCHANGED <<triggerVars, poolVars, storeVars, envVars, legacyVars, pacing>>

FetchSpecInit == TriggerInit /\ PoolAtRest /\ StoreAtRest /\ FetchInit /\ EnvAtDefault
    /\ LegacyAtRest

SpecFetch == FetchSpecInit /\ [][FetchNext]_vars

-----------------------------------------------------------------------------
(* The earlier job (part_002): after classification the products to create *)
(* and the products to update are written in batches of BATCH_SIZE, the    *)
(* creates first, each batch by one workflow call inside its own try.      *)

\* batchGenerator(items, batchSize): items.slice(i, i + batchSize) for i = 0, batchSize, ...
batchGenerator(items, size) ==
    [k \in 1..((Len(items) + size - 1) \div size) |->
        SubSeq(items, (k - 1) * size + 1, Min(k * size, Len(items)))]

\* where the job stands once the create loop is over: if (productsToUpdate.length > 0)
legacyAfterCreates(s) ==
    IF Len(s.productsToUpdate) > 0 THEN [s EXCEPT !.pc = "updating", !.batchNum = 0]
    ELSE [s EXCEPT !.pc = "done"]

\* the for await loop of the creates moves on to its next batch, or is over
legacyNextCreate(s) ==
    IF s.batchNum < Len(batchGenerator(s.productsToCreate, s.BATCH_SIZE)) THEN s
    ELSE legacyAfterCreates(s)

\* the for await loop of the updates moves on to its next batch, or is over
legacyNextUpdate(s) ==
    IF s.batchNum < Len(batchGenerator(s.productsToUpdate, s.BATCH_SIZE)) THEN s
    ELSE [s EXCEPT !.pc = "done"]

legacyBatchFailedRethrowing(s, call, batch) ==
    [s EXCEPT !.batchNum = @ + 1,
              !.errorCount = @ + Len(batch),
              !.attempted = Append(@, [call |-> call, products |-> batch, ok |-> FALSE]),
              !.pc = "done"]

\* catch (error) { errorCount += batch.length; ... } of either loop: the loop goes on
legacyBatchFailed(s, call, batch) ==
    [s EXCEPT !.batchNum = @ + 1,
              !.errorCount = @ + Len(batch),
              !.attempted = Append(@, [call |-> call, products |-> batch, ok |-> FALSE])]

\* classification is over: if (productsToCreate.length > 0) the create loop is entered
LegacyWriteStart ==
    /\ legacySync.pc = "classified"
    /\ legacySync' =
         IF Len(legacySync.productsToCreate) > 0
         THEN [legacySync EXCEPT !.pc = "creating", !.batchNum = 0]
         ELSE legacyAfterCreates(legacySync)

\* createProductsWorkflow(container).run({input: {products: batch}}) resolves
LegacyCreateReturn ==
    /\ legacySync.pc = "creating"
    /\ LET batch == batchGenerator(legacySync.productsToCreate,
                                   legacySync.BATCH_SIZE)[legacySync.batchNum + 1]
       IN legacySync' = legacyNextCreate(
            [legacySync EXCEPT
                !.batchNum = @ + 1,
                !.createdCount = @ + Len(batch),
                !.attempted = Append(@, [call |-> "create", products |-> batch, ok |-> TRUE])])

\* createProductsWorkflow(container).run(...) rejects
LegacyCreateFail ==
    /\ legacySync.pc = "creating"
    /\ LET batch == batchGenerator(legacySync.productsToCreate,
                                   legacySync.BATCH_SIZE)[legacySync.batchNum + 1]
       IN legacySync' = LET failed == legacyBatchFailed(legacySync, "create", batch)
                        IN IF failed.pc = "creating" THEN legacyNextCreate(failed) ELSE failed

\* updateProductsWorkflow(container).run({input: {products: batch}}) resolves
LegacyUpdateReturn ==
    /\ legacySync.pc = "updating"
    /\ LET batch == batchGenerator(legacySync.productsToUpdate,
                                   legacySync.BATCH_SIZE)[legacySync.batchNum + 1]
       IN legacySync' = legacyNextUpdate(
            [legacySync EXCEPT
                !.batchNum = @ + 1,
                !.updatedCount = @ + Len(batch),
                !.attempted = Append(@, [call |-> "update", products |-> batch, ok |-> TRUE])])

\* updateProductsWorkflow(container).run(...) rejects
LegacyUpdateFail ==
    /\ legacySync.pc = "updating"
    /\ LET batch == batchGenerator(legacySync.productsToUpdate,
                                   legacySync.BATCH_SIZE)[legacySync.batchNum + 1]
       IN legacySync' = LET failed == legacyBatchFailed(legacySync, "update", batch)
                        IN IF failed.pc = "updating" THEN legacyNextUpdate(failed) ELSE failed

\* The outcome of classification: external ids of the products that have no
\* catalog record and of those that have one
LegacyInit ==
    \E nCreate \in 0..MaxItems, nUpdate \in 0..MaxItems, size \in SyncBatchSizes :
        legacySync = [NoLegacySync EXCEPT
                        !.pc = "classified",
                        !.BATCH_SIZE = size,
                        !.productsToCreate = [i \in 1..nCreate |-> i],
                        !.productsToUpdate = [i \in 1..nUpdate |-> nCreate + i]]

LegacyNext ==
    \/ LegacyWriteStart
          /\ UNCHANGED <<triggerVars, poolVars, storeVars, fetchVars, envVars, fetchAll>>
    \/ LegacyCreateReturn
          /\ UNCHANGED <<triggerVars, poolVars, storeVars, fetchVars, envVars, fetchAll>>
    \/ LegacyCreateFail
          /\ UNCHANGED <<triggerVars, poolVars, storeVars, fetchVars, envVars, fetchAll>>
    \/ LegacyUpdateReturn
          /\ UNCHANGED <<triggerVars, poolVars, storeVars, fetchVars, envVars, fetchAll>>
    \/ LegacyUpdateFail
          /\ UNCHANGED <<triggerVars, poolVars, storeVars, fetchVars, envVars, fetchAll>>

LegacySpecInit ==
    /\ TriggerInit
    /\ PoolAtRest
    /\ StoreAtRest
    /\ FetchAtRest
    /\ EnvAtDefault
    /\ LegacyInit
    /\ fetchAll = NoFetchAll

SpecLegacy == LegacySpecInit /\ [][LegacyNext]_vars

-----------------------------------------------------------------------------
(* fetchAllProducts of the earlier job (part_002): pages of PAGE_SIZE are  *)
(* asked for while hasMore, each through fetchWithRetry of lib/retry.ts.   *)

\* What the feed may answer to one page request: up to PAGE_SIZE products, here the
\* external ids following skip, and whatever total it reports
PageResponses(size, skip) ==
    {[products |-> [i \in 1..n |-> skip + i], total |-> t] :
        n \in 0..size, t \in 0..MaxReported}

\* skip += PAGE_SIZE; the offsets past MaxPages pages are held as one, the feed
\* answering each of them from the same responses
nextSkip(skip, size) == Min(skip + size, MaxPages * size)

\* fetchWithRetry resolves with the response: allProducts.push(...response.products),
\* skip += PAGE_SIZE, hasMore = allProducts.length < response.total
LegacyFetchReturn(response) ==
    /\ fetchAll.pc = "fetching"
    /\ LET all == fetchAll.allProducts \o response.products
       IN  fetchAll' = [fetchAll EXCEPT !.allProducts = all,
                                        !.skip = nextSkip(@, fetchAll.PAGE_SIZE),
                                        !.hasMore = Len(all) < response.total,
                                        !.pc = "loop"]

\* fetchWithRetry throws, its retries used up: catch (error) { ...; throw error }
LegacyFetchFail ==
    /\ fetchAll.pc = "fetching"
    /\ fetchAll' = [fetchAll EXCEPT !.pc = "threw"]

\* while (hasMore): the next page is asked for at skip, or allProducts is returned
LegacyLoopTest ==
    /\ fetchAll.pc = "loop"
    /\ fetchAll' =
         IF fetchAll.hasMore
         THEN [fetchAll EXCEPT !.pc = "fetching",
                               !.requested = IF fetchAll.skip \in Range(@) THEN @
                                             ELSE Append(@, fetchAll.skip)]
         ELSE [fetchAll EXCEPT !.pc = "returned"]

\* PAGE_SIZE, scaled down
LegacyPageSizes == {1, 2}

\* fetchAllProducts is called: skip = 0, hasMore = true, the first page is asked for
LegacyFetchInit ==
    \E size \in LegacyPageSizes :
        fetchAll = [NoFetchAll EXCEPT !.pc = "fetching", !.PAGE_SIZE = size,
                                      !.requested = <<0>>]

LegacyFetchNext ==
    \/ \E response \in PageResponses(fetchAll.PAGE_SIZE, fetchAll.skip) :
          LegacyFetchReturn(response)
              /\ UNCHANGED <<triggerVars, poolVars, storeVars, fetchVars, envVars, legacySync>>
    \/ LegacyFetchFail
          /\ UNCHANGED <<triggerVars, poolVars, storeVars, fetchVars, envVars, legacySync>>
    \/ LegacyLoopTest
          /\ UNCHANGED <<triggerVars, poolVars, storeVars, fetchVars, envVars, legacySync>>

LegacyFetchSpecInit ==
    /\ TriggerInit
    /\ PoolAtRest
    /\ StoreAtRest
    /\ FetchAtRest
    /\ EnvAtDefault
    /\ legacySync = NoLegacySync
    /\ LegacyFetchInit

\* Every page request is answered or fails in the end
SpecLegacyFetch == LegacyFetchSpecInit /\ [][LegacyFetchNext]_vars /\ WF_vars(LegacyFetchNext)

-----------------------------------------------------------------------------
(* C1: a POST handled while a run is in progress answers 409, starts no    *)
(* job and leaves every field of the status record as it was.              *)
C1_RejectedWhileRunning ==
    [][(syncStatus.isRunning /\ nPosts' # nPosts)
         => /\ lastResponse'.code = 409
            /\ syncStatus' = syncStatus
            /\ activeRuns' = activeRuns]_vars

C1_Witness ==
    /\ syncStatus.isRunning
    /\ lastResponse.code = 409
    /\ \E r \in activeRuns : r.origin = "manual"

(* C2: at most one execution of syncProductsJob is in progress, whichever  *)
(* of the scheduler and the manual trigger started it.                     *)
C2_AtMostOneRun == Cardinality(activeRuns) <= 1

(* C3: no two catalog records have the same handle, in any state and     *)
(* under any interleaving of the workers.                                  *)
C3_HandlesUnique ==
    \A i, j \in DOMAIN products : i # j => products[i].handle # products[j].handle

(* C4: the external id of a catalog record never changes once the record   *)
(* exists.                                                                 *)
C4_ExternalIdKept ==
    [][\A i \in DOMAIN products : products'[i].external_id = products[i].external_id]_vars

(* C5: after a run that ended without errors, a second run over the same   *)
(* items classifies every item as an update, creates no record and leaves  *)
(* the number of catalog records as the first run left it.                 *)
C5_SecondRunOnlyUpdates ==
    (run = 2 /\ runStats[1].stats.totalErrors = 0) =>
        /\ \A w \in DOMAIN workers :
              workers[w].pc = "upsert" =>
                  \A i \in DOMAIN workers[w].payload : workers[w].payload[i].id # 0
        /\ stats.totalProductsCreated = 0
        /\ Len(products) = runStats[1].catalogSize
        /\ phase = "done" => stats.totalProductsUpdated = Len(feed)

C5_Witness ==
    /\ run = 2
    /\ phase = "done"
    /\ runStats[1].stats.totalErrors = 0
    /\ runStats[1].stats.totalProductsCreated > 0
    /\ stats.totalProductsUpdated = Len(feed)

(* C6: the first run over items with pairwise distinct external ids, into  *)
(* an empty catalog and with nothing failing, creates one record per item: *)
(* created = number of items, updated = 0, errors = 0.                     *)
C6_FirstRunCreatesAll ==
    (run = 1 /\ phase = "done") =>
        /\ stats.totalProductsCreated = Len(feed)
        /\ stats.totalProductsUpdated = 0
        /\ stats.totalErrors = 0
        /\ Len(products) = Len(feed)

(* C7: within a run no category handle is named by more than one           *)
(* creation request, however the workers interleave.                       *)
C7_CreatedOncePerRun ==
    \A h \in DOMAIN createCalls.byHandle : createCalls.byHandle[h] <= 1

(* C8: when the store's answer to the category lookup arrives, a name      *)
(* whose slug the store holds is mapped to a category with that slug; if   *)
(* every name is matched no creation call is made; otherwise exactly one   *)
(* call is made, and it carries exactly the unmatched names.               *)
C8_ResolveExisting ==
    [][\A w \in DOMAIN workers :
          (w \in DOMAIN workers' /\ workers[w].pc = "listCategories"
                                 /\ workers'[w].pc # "listCategories") =>
              LET names == {workers[w].batch[i].category : i \in DOMAIN workers[w].batch}
                  held == {categories[i].handle : i \in DOMAIN categories}
                  matched == {n \in names : slugify(n) \in held}
                  after == workers'[w]
              IN  /\ \A n \in matched :
                        /\ n \in DOMAIN after.nameToId
                        /\ after.nameToId[n] \in DOMAIN categories
                        /\ categories[after.nameToId[n]].handle = slugify(n)
                  /\ matched = names =>
                        /\ createCalls' = createCalls
                        /\ after.pc = "listProducts"
                  /\ matched # names =>
                        /\ createCalls'.calls = createCalls.calls + 1
                        /\ after.pc = "createCategories"
                        /\ {after.toCreate[i].name : i \in DOMAIN after.toCreate} = names \ matched
                        /\ Len(after.toCreate) = Cardinality(names \ matched)]_vars

C8_Witness ==
    \E w \in DOMAIN workers :
        /\ workers[w].pc = "listProducts"
        /\ workers[w].toCreate = <<>>
        /\ DOMAIN workers[w].nameToId # {}
        /\ createCalls.calls = 0
        /\ \E n \in DOMAIN workers[w].nameToId : categories[workers[w].nameToId[n]].name # n

(* C9: when createProductCategories fails, the batch is not recorded as    *)
(* failed: its items go on to be reconciled and upserted.                  *)
C9_CategoryFailureNotFatal ==
    [][\A w \in DOMAIN workers :
          (workers[w].pc = "createCategories" /\ faults' # faults) =>
              /\ stats'.batchesFailed = stats.batchesFailed
              /\ workers'[w].pc = "listProducts"]_vars

(* C10: generateBatchTasks returns ceil(total / batchSize) tasks, the i-th *)
(* at offset (i - 1) * batchSize, and every position of [0, total) lies in *)
(* the slice of exactly one task.                                          *)
C10_TasksCover ==
    phase = "generated" =>
        /\ Len(allTasks) = (totalProducts + batchSize - 1) \div batchSize
        /\ \A i \in DOMAIN allTasks : allTasks[i].skip = (i - 1) * batchSize
        /\ \A x \in 0..(totalProducts - 1) :
              Cardinality({i \in DOMAIN allTasks :
                              /\ allTasks[i].skip <= x
                              /\ x < allTasks[i].skip + allTasks[i].batchSize}) = 1

C10_Witness ==
    /\ phase = "generated"
    /\ totalProducts % batchSize # 0
    /\ Len(allTasks) >= 3

(* C11: the last generated task has the size total mod batchSize, or       *)
(* batchSize when batchSize divides total, and no task's slice extends     *)
(* past total.                                                             *)
C11_LastTaskSize ==
    (phase = "generated" /\ allTasks # <<>>) =>
        /\ allTasks[Len(allTasks)].batchSize =
              (IF totalProducts % batchSize = 0 THEN batchSize ELSE totalProducts % batchSize)
        /\ \A i \in DOMAIN allTasks : allTasks[i].skip + allTasks[i].batchSize <= totalProducts

(* C12: the task at index i goes to worker i mod workerCount: the workers' *)
(* lists partition the task list, none duplicated or dropped, and each     *)
(* list keeps its tasks in increasing index order.                         *)
C12_RoundRobinPartition ==
    phase = "distributed" =>
        /\ DOMAIN workers = 1..workerCount
        /\ \A i \in DOMAIN allTasks :
              LET w == ((i - 1) % workerCount) + 1
              IN  /\ \E k \in DOMAIN workers[w].tasks : workers[w].tasks[k] = allTasks[i]
                  /\ \A v \in (1..workerCount) \ {w} :
                        \A k \in DOMAIN workers[v].tasks : workers[v].tasks[k] # allTasks[i]
        /\ \A w \in 1..workerCount :
              /\ \A k \in DOMAIN workers[w].tasks :
                    \E i \in DOMAIN allTasks : workers[w].tasks[k] = allTasks[i]
              /\ \A k, l \in DOMAIN workers[w].tasks :
                    k < l => workers[w].tasks[k].skip < workers[w].tasks[l].skip

C12_Witness ==
    /\ phase = "distributed"
    /\ workerCount = 3
    /\ Len(allTasks) = 7
    /\ Len(workers[1].tasks) = 3

(* C13: with T tasks and W workers, 1 <= W <= T, every worker is given     *)
(* floor(T / W) or ceil(T / W) tasks, so two workers' counts differ by at  *)
(* most one.                                                               *)
C13_Balanced ==
    (phase = "distributed" /\ workerCount <= Len(allTasks)) =>
        /\ \A w \in 1..workerCount :
              Len(workers[w].tasks) \in {Len(allTasks) \div workerCount,
                                         (Len(allTasks) + workerCount - 1) \div workerCount}
        /\ \A v, w \in 1..workerCount :
              Len(workers[v].tasks) - Len(workers[w].tasks) \in {-1, 0, 1}

C13_Witness ==
    /\ phase = "distributed"
    /\ workerCount = 3
    /\ Len(allTasks) = 4
    /\ Len(workers[1].tasks) = 2
    /\ Len(workers[3].tasks) = 1

(* C14: the fetch client issues at most maxRetries requests for one call   *)
(* and surfaces the failure after exactly maxRetries failed attempts,      *)
(* never while attempts remain.                                            *)
C14_ExactlyMaxRetries ==
    LET maxRetries == IF client = "service" THEN config.retries ELSE config.maxRetries
    IN  /\ requests <= maxRetries
        /\ fetchPc = "thrown" => Cardinality(failedAttempts(received)) = maxRetries

(* C14, amended: DummyJsonService.fetchWithRetry issues at most retries    *)
(* requests and throws after exactly retries failed attempts; fetchWith-   *)
(* Retry of lib/retry.ts issues at most maxRetries + 1 requests and throws *)
(* after exactly maxRetries + 1 failed attempts. Neither throws earlier.   *)
C14_AttemptBudget ==
    LET budget == IF client = "service" THEN config.retries ELSE config.maxRetries + 1
    IN  /\ requests <= budget
        /\ fetchPc = "thrown" =>
              /\ requests = budget
              /\ Cardinality(failedAttempts(received)) = budget
              /\ Len(received) = budget

C14_Witness ==
    /\ client = "service"
    /\ config.retries = 3
    /\ fetchPc = "thrown"
    /\ requests = 3
    /\ received[1] = <<>>
    /\ received[2] # <<>> /\ received[2][1].status = 429
    /\ received[3] # <<>> /\ received[3][1].status = 500

(* C15: a call whose first k attempts fail, k < maxRetries, in any mix of  *)
(* rejected requests, non-2xx and 429 responses, and whose next attempt    *)
(* succeeds returns that response and raises no error.                     *)
C15_SuccessAfterFailures ==
    LET maxRetries == IF client = "service" THEN config.retries ELSE config.maxRetries
        k == Len(received) - 1
    IN  /\ (fetchPc = "thrown" /\ received # <<>>) =>
              Len(received) \in failedAttempts(received)
        /\ Cardinality(failedAttempts(received)) < maxRetries => fetchPc # "thrown"
        /\ (/\ received # <<>>
            /\ k < maxRetries
            /\ failedAttempts(received) = 1..k) =>
              /\ fetchPc = "returned"
              /\ fetchResult = [value |-> IF client = "service"
                                          THEN received[k + 1][1]
                                          ELSE received[k + 1][1].body]

C15_Witness ==
    /\ client = "service"
    /\ fetchPc = "returned"
    /\ Len(received) = 4
    /\ received[1] = <<>>
    /\ received[2] # <<>> /\ received[2][1].status = 429
    /\ received[3] # <<>> /\ received[3][1].status = 500
    /\ fetchResult = [value |-> received[4][1]]
    /\ received[4][1].body = "page2"

C17_RetryAfterHonoured ==
    client = "service" =>
        /\ fetchPc = "request" => Len(sleeps) = Len(received)
        /\ \A n \in DOMAIN sleeps :
              (received[n] # <<>> /\ received[n][1].status = 429
                                  /\ received[n][1].retryAfter # <<>>) =>
                  /\ sleeps[n].after = "429"
                  /\ received[n][1].retryAfter = <<"5">> => sleeps[n].ms = 5 * 1000
                  /\ received[n][1].retryAfter = <<"0">> => sleeps[n].ms = 0

C17_Witness ==
    /\ client = "service"
    /\ fetchPc = "request"
    /\ Len(sleeps) = 2
    /\ received[2] # <<>>
    /\ received[2][1].status = 429
    /\ received[2][1].retryAfter = <<"5">>
    /\ sleeps[2].ms = 5000
    /\ sleeps[1].ms = 1000

(* C18: in DummyJsonService a 429 uses up an attempt like any other        *)
(* failure, so maxRetries failed attempts of any mix end the call with an  *)
(* error; and a 429 without Retry-After is followed by a delay longer than *)
(* the exponential backoff step of the same attempt.                       *)
C18_SameBudgetLongerDefault ==
    client = "service" =>
        /\ (fetchPc # "start" /\ Cardinality(failedAttempts(received)) = config.retries)
              => fetchPc = "thrown"
        /\ fetchPc = "thrown" => Cardinality(failedAttempts(received)) = config.retries
        /\ \A n \in DOMAIN sleeps :
              (received[n] # <<>> /\ received[n][1].status = 429
                                  /\ received[n][1].retryAfter = <<>>) =>
                  sleeps[n].ms > 1000 * Pow(2, n - 1)

(* C19: when the workflow of a batch fails, the batch is not retried, the  *)
(* failure is counted in the stats, the worker goes on to its next task,   *)
(* the other workers are untouched and the run is not aborted: at the end  *)
(* of the run every task was either processed or counted as failed.        *)
C19_BatchFailureIsolated ==
    /\ [](phase = "done" =>
            /\ stats.batchesProcessed + stats.batchesFailed = Len(allTasks)
            /\ stats.batchesFailed = faults
            /\ stats.completedCount = Len(allTasks))
    /\ [][\A w \in DOMAIN workers :
            (/\ workers[w].pc \in {"createCategories", "upsert"}
             /\ faults' # faults
             /\ workers'[w] # workers[w]) =>
                /\ stats'.batchesFailed = stats.batchesFailed + 1
                /\ stats'.totalErrors > stats.totalErrors
                /\ stats'.batchesProcessed = stats.batchesProcessed
                /\ workers'[w].tasks = Tail(workers[w].tasks)
                /\ workers'[w].pc = (IF Tail(workers[w].tasks) = <<>> THEN "finished" ELSE "fetch")
                /\ \A v \in DOMAIN workers \ {w} : workers'[v] = workers[v]
                /\ phase' = "running"
                /\ products' = products]_vars

C19_Witness ==
    /\ phase = "done"
    /\ workerCount = 1
    /\ batchSize = 1
    /\ stats.batchesFailed = 1
    /\ stats.batchesProcessed = 2
    /\ feed[1].title = <<"b">>
    /\ \A i \in DOMAIN products : products[i].handle # <<"b">>
    /\ Len(categories) > stats.totalCategoriesCreated
    /\ Len(products) >= 1

(* C20: when the fetch of a page fails for good, that page alone is        *)
(* abandoned and counted as one failed batch; the run is not aborted and   *)
(* the pages after it are still attempted: the run ends with every page    *)
(* either processed or counted as failed.                                  *)
C20_FetchFailureIsolated ==
    /\ phase # "crashed"
    /\ phase = "done" =>
          stats.batchesProcessed + stats.batchesFailed = (Len(feed) + batchSize - 1) \div batchSize

(* C21: when the upsert of a batch fails, the errors counter grows by the  *)
(* number of items of that batch, and the created, updated and processed   *)
(* counters are left as they were.                                         *)
C21_WholeBatchCounted ==
    [][\A w \in DOMAIN workers :
          (/\ workers[w].pc = "upsert"
           /\ faults' # faults
           /\ workers'[w] # workers[w]) =>
              /\ stats'.totalErrors = stats.totalErrors + Len(workers[w].batch)
              /\ stats'.totalProductsCreated = stats.totalProductsCreated
              /\ stats'.totalProductsUpdated = stats.totalProductsUpdated
              /\ stats'.totalProductsProcessed = stats.totalProductsProcessed]_vars

(* C22: a worker runs its tasks one after the other: what it has left is   *)
(* always the tail end of what it was assigned, with the task in flight at *)
(* the head; a task leaves the list only when its fetch or its workflow    *)
(* has come back (a page processed, an empty page, or an error recorded),  *)
(* and only then is the next task's fetch started.                         *)
C22_WorkerSequential ==
    /\ [](phase \in {"running", "done"} =>
            \A w \in DOMAIN workers :
               LET assigned == distributeTasksToWorkers(allTasks, workerCount)[w]
                   left == workers[w].tasks
               IN  /\ Len(left) <= Len(assigned)
                   /\ left = SubSeq(assigned, Len(assigned) - Len(left) + 1, Len(assigned))
                   /\ (workers[w].pc = "finished") = (left = <<>>))
    /\ [][\A w \in DOMAIN workers :
            \/ workers'[w].tasks = workers[w].tasks
            \/ /\ workers'[w].tasks = Tail(workers[w].tasks)
               /\ workers[w].pc \in {"fetch", "createCategories", "upsert"}
               /\ \/ stats'.completedCount = stats.completedCount + 1
                  \/ /\ workers[w].pc = "fetch"
                     /\ fetchProductsPage(feed, Head(workers[w].tasks).batchSize,
                                          Head(workers[w].tasks).skip) = <<>>
               /\ workers'[w].pc = (IF workers'[w].tasks = <<>> THEN "finished" ELSE "fetch")
               /\ workers'[w].batch = <<>>]_vars

C22_Witness ==
    /\ phase = "running"
    /\ workerCount = 2
    /\ Len(allTasks) = 3
    /\ workers[1].tasks = <<allTasks[3]>>
    /\ workers[1].pc = "upsert"
    /\ workers[2].pc = "listProducts"
    /\ stats.batchesFailed = 1
    /\ stats.completedCount = 1

(* C23: the run is reported complete only once every worker has finished   *)
(* every task assigned to it, and it then ends as succeeded however many   *)
(* batches failed; after completion no task is in flight and the stats no  *)
(* longer change.                                                          *)
C23_CompletionAfterJoin ==
    /\ [](phase \in {"idle", "running", "done"})
    /\ [](phase = "done" =>
            /\ \A w \in DOMAIN workers : workers[w].pc = "finished" /\ workers[w].tasks = <<>>
            /\ stats.batchesProcessed + stats.batchesFailed = Len(allTasks)
            /\ runStats[Len(runStats)].stats = stats)
    /\ [][(phase = "running" /\ phase' = "done") =>
            /\ \A w \in DOMAIN workers : workers[w].pc = "finished"
            /\ stats' = stats /\ workers' = workers]_vars
    /\ [][phase = "done" => (phase' = "done" /\ stats' = stats /\ workers' = workers)]_vars

C23_Witness ==
    /\ phase = "done"
    /\ workerCount = 2
    /\ Len(allTasks) = 3
    /\ stats.batchesFailed = 1
    /\ stats.batchesProcessed = 2
    /\ Len(runStats) = 1

C25_ProbeFailureIsFatal ==
    [][(/\ phase = "crashed"
        /\ stats.batchesProcessed + stats.batchesFailed = 0
        /\ activeRuns' # activeRuns) =>
            /\ syncStatus'.isRunning = FALSE
            /\ syncStatus'.lastStatus = "error"
            /\ syncStatus'.lastError # <<>>]_vars

(* C26: every accepted trigger completes: provided each call the job       *)
(* awaits returns or throws, a status that is running is eventually        *)
(* followed by isRunning = false with lastStatus success or error.         *)
C26_RunCompletes ==
    syncStatus.isRunning ~>
        (~syncStatus.isRunning /\ syncStatus.lastStatus \in {"success", "error"})

C26_Witness ==
    /\ ~syncStatus.isRunning
    /\ syncStatus.lastStatus = "success"
    /\ syncStatus.lastDuration # <<>>
    /\ nPosts = 1
    /\ phase = "idle"
    /\ stats.batchesProcessed = 3

(* C27: once a manually triggered run has finished, the status record that *)
(* GET returns reports stats (created, updated, errors) equal to the       *)
(* counters that run accumulated.                                          *)
C27_StatusReportsRunStats ==
    [][(/\ lastResponse' # lastResponse
        /\ "stats" \in DOMAIN lastResponse'.data
        /\ run >= 1
        /\ ~syncStatus.isRunning
        /\ syncStatus.lastStatus = "success") =>
            lastResponse'.data.stats = [created |-> stats.totalProductsCreated,
                                        updated |-> stats.totalProductsUpdated,
                                        errors |-> stats.totalErrors]]_vars

(* C28: a run never requests nor processes more feed items than the        *)
(* configured safety maximum, whatever the feed's total and the batch      *)
(* size, a batch size that does not divide the maximum included.           *)
C28_WithinSafeMax ==
    phase \in {"running", "done", "crashed"} =>
        /\ stats.totalProductsProcessed <= safeMax
        /\ \A i \in DOMAIN workers[1].tasks :
              workers[1].tasks[i].skip + workers[1].tasks[i].batchSize <= safeMax

(* C29: items of one batch whose titles give the same slug get distinct    *)
(* handles, the first the bare slug and the next ones the slug with the    *)
(* counter suffix -1, -2, ... (a suffix already taken is skipped): the     *)
(* handles sent to the store for a batch of new items are those of the     *)
(* counter scheme.                                                         *)
C29_CollisionCounterSuffix ==
    \A w \in DOMAIN workers :
        (workers[w].pc = "upsert" /\ products = <<>>) =>
            /\ [i \in DOMAIN workers[w].payload |-> workers[w].payload[i].handle]
                  = uniqueHandlesFrom(workers[w].batch, 1, {}, {})
            /\ \A i, j \in DOMAIN workers[w].payload :
                  i # j => workers[w].payload[i].handle # workers[w].payload[j].handle

(* C30: on the update path the handle of an existing catalog record is     *)
(* never rewritten: every record that exists before a reconciliation has   *)
(* the same handle after it, also when the item written over it has        *)
(* another title.                                                          *)
C30_HandleKeptOnUpdate ==
    [][/\ Len(products') >= Len(products)
       /\ \A i \in DOMAIN products : products'[i].handle = products[i].handle]_vars

C30_Witness ==
    /\ stats.totalProductsUpdated >= 1
    /\ Len(products) = 1
    /\ feed[1].title = <<"A">>
    /\ products[1].handle = <<"a">>
    /\ products[1].title = <<"a">>
    /\ products[1].external_id = <<"2">>

(* C31: on the update path the category links of an existing catalog       *)
(* record are left as they were: every record that exists before a step    *)
(* has the same categories after it, also when the item written over it    *)
(* names another category.                                                 *)
C31_CategoriesKeptOnUpdate ==
    [][\A i \in DOMAIN products : products'[i].categories = products[i].categories]_vars

(* C32: the fixed pacing delay precedes every HTTP request sent to the     *)
(* feed, the retry attempts included and not only the first attempt of a   *)
(* page fetch.                                                             *)
C32_PacingBeforeEveryRequest ==
    client = "service" =>
        \A n \in 1..requests :
            \E i \in DOMAIN pacing : pacing[i].before = n /\ pacing[i].ms = RATE_LIMIT_DELAY

(* C33: with creates and updates issued as separate calls, every create    *)
(* batch and every update batch is attempted whatever the outcome of the   *)
(* others: once the job is through, the calls attempted are exactly the    *)
(* create batches followed by the update batches, and a failed call ends   *)
(* the job only when it was the last one due.                              *)
C33_AllBatchesAttempted ==
    /\ [](legacySync.pc = "done" =>
            [i \in DOMAIN legacySync.attempted |-> legacySync.attempted[i].products]
              = batchGenerator(legacySync.productsToCreate, legacySync.BATCH_SIZE)
                  \o batchGenerator(legacySync.productsToUpdate, legacySync.BATCH_SIZE))
    /\ [][(legacySync'.errorCount > legacySync.errorCount /\ legacySync'.pc = "done")
            => Len(legacySync'.attempted)
                 = Len(batchGenerator(legacySync.productsToCreate, legacySync.BATCH_SIZE))
                     + Len(batchGenerator(legacySync.productsToUpdate, legacySync.BATCH_SIZE))]_vars

C33_Witness ==
    /\ legacySync.pc = "done"
    /\ \E i, j, k \in DOMAIN legacySync.attempted :
          /\ i < j /\ j < k
          /\ legacySync.attempted[i].call = "create" /\ ~legacySync.attempted[i].ok
          /\ legacySync.attempted[i + 1].call = "create"
          /\ legacySync.attempted[j].call = "update" /\ ~legacySync.attempted[j].ok
          /\ legacySync.attempted[k].call = "update"

\* how many page requests of the run, over all its workers, asked for the given skip
requestsFor(skip) ==
    Cardinality({wj \in (DOMAIN pageRequests) \X (1..Len(allTasks)) :
                    /\ wj[2] <= Len(pageRequests[wj[1]])
                    /\ pageRequests[wj[1]][wj[2]].skip = skip})

(* C34: every generated task is fetched exactly once per run: while the    *)
(* run is under way no task's page has been asked for twice, by one worker *)
(* or by two, every page asked for is the page of a generated task, and    *)
(* once the workers have joined every task's page has been asked for; a    *)
(* worker beyond the number of tasks asks for nothing.                     *)
C34_EachTaskFetchedOnce ==
    phase \in {"running", "done"} =>
        /\ \A w \in DOMAIN pageRequests :
              /\ Len(pageRequests[w]) <= Len(allTasks)
              /\ \A j \in DOMAIN pageRequests[w] :
                    \E i \in DOMAIN allTasks : allTasks[i].skip = pageRequests[w][j].skip
              /\ w > Len(allTasks) => pageRequests[w] = <<>> /\ workers[w].pc = "finished"
        /\ \A i \in DOMAIN allTasks : requestsFor(allTasks[i].skip) <= 1
        /\ phase = "done" => \A i \in DOMAIN allTasks : requestsFor(allTasks[i].skip) = 1

C34_Witness ==
    /\ phase = "done"
    /\ Len(allTasks) >= 2
    /\ workerCount > Len(allTasks)
    /\ \A i \in DOMAIN allTasks : requestsFor(allTasks[i].skip) = 1
    /\ stats.batchesFailed = 1

\* the tasks of the run whose fetch was answered with an empty page
emptyPagesAnswered ==
    Cardinality({wj \in (DOMAIN pageRequests) \X (1..Len(allTasks)) :
                    /\ wj[2] <= Len(pageRequests[wj[1]])
                    /\ pageRequests[wj[1]][wj[2]].products = 0})

\* the tasks the workers of the run still hold, the ones under way included
tasksLeft ==
    Cardinality({wi \in (DOMAIN workers) \X (1..Len(allTasks)) :
                    wi[2] <= Len(workers[wi[1]].tasks)})

(* C35: batchesProcessed + batchesFailed never exceeds the number of       *)
(* tasks; a step adds at most one to the two counters together, and only   *)
(* as one task leaves its worker, so a task adds to one counter once at    *)
(* most; once the workers have joined, the two counters add up to the      *)
(* number of tasks less the tasks whose fetch was answered by an empty     *)
(* page.                                                                   *)
C35_BatchCountersBounded ==
    /\ [](phase \in {"running", "done"} =>
            /\ stats.batchesProcessed + stats.batchesFailed <= Len(allTasks)
            /\ stats.batchesProcessed + stats.batchesFailed
                 = Len(allTasks) - tasksLeft - emptyPagesAnswered
            /\ phase = "done" =>
                 stats.batchesProcessed + stats.batchesFailed
                   = Len(allTasks) - emptyPagesAnswered)
    /\ [][phase = "running" =>
            /\ stats'.batchesProcessed \in {stats.batchesProcessed, stats.batchesProcessed + 1}
            /\ stats'.batchesFailed \in {stats.batchesFailed, stats.batchesFailed + 1}
            /\ ~(stats'.batchesProcessed # stats.batchesProcessed
                   /\ stats'.batchesFailed # stats.batchesFailed)
            /\ stats' # stats =>
                 \E w \in DOMAIN workers :
                    /\ workers[w].tasks # <<>>
                    /\ workers'[w].tasks = Tail(workers[w].tasks)
                    /\ \A v \in DOMAIN workers \ {w} : workers'[v] = workers[v]]_vars

C35_Witness ==
    /\ phase = "done"
    /\ emptyPagesAnswered = 1
    /\ stats.batchesProcessed = 1
    /\ stats.batchesFailed = 1
    /\ Len(allTasks) = 3

(* C36: totalProductsProcessed = totalProductsCreated + totalProductsUpdated *)
(* in every state, whatever the phase of the run, in the statistics kept   *)
(* of each completed run as well; the three counters only move together,   *)
(* the processed count by as much as the other two.                        *)
C36_ProcessedIsCreatedPlusUpdated ==
    /\ [](/\ stats.totalProductsProcessed
               = stats.totalProductsCreated + stats.totalProductsUpdated
          /\ \A r \in DOMAIN runStats :
                runStats[r].stats.totalProductsProcessed
                  = runStats[r].stats.totalProductsCreated
                      + runStats[r].stats.totalProductsUpdated)
    /\ [][phase = "running" =>
            stats'.totalProductsProcessed - stats.totalProductsProcessed
              = (stats'.totalProductsCreated - stats.totalProductsCreated)
                  + (stats'.totalProductsUpdated - stats.totalProductsUpdated)]_vars

C36_Witness ==
    /\ phase = "running"
    /\ stats.totalProductsCreated = 1
    /\ stats.totalProductsUpdated = 1
    /\ stats.totalProductsProcessed = 2
    /\ stats.batchesFailed = 1

C38_BatchHandlesDistinct ==
    \A w \in DOMAIN workers :
        workers[w].pc = "upsert" =>
            \A i, j \in DOMAIN workers[w].payload :
                i # j => workers[w].payload[i].handle # workers[w].payload[j].handle

(* C39: one category-resolution call never submits two creation inputs     *)
(* with the same slug: of the names of one batch that slugify to the same  *)
(* missing slug, one category at most is requested.                        *)
C39_OneCreationPerSlug ==
    \A w \in DOMAIN workers :
        workers[w].pc = "createCategories" =>
            \A i, j \in DOMAIN workers[w].toCreate :
                i # j => workers[w].toCreate[i].handle # workers[w].toCreate[j].handle

(* C40: the paginated fetch loop comes to an end after finitely many page  *)
(* requests whatever the feed answers, an empty page or fewer items than   *)
(* its reported total included, every fetch call returning.                *)
C40_PaginationTerminates == <>(fetchAll.pc \in {"returned", "threw"})

====
